---- MODULE Spec2Model ----
(***************************************************************************)
(* Retrieval core of the legal chatbot (backend/rag_engine): the vector    *)
(* index store with its snapshot persistence (rag_core.py), the tiered     *)
(* retrieval orchestrator (rag_core.py) and the lazily loaded reranker     *)
(* (relevance_reranker.py).                                                *)
(*                                                                         *)
(* Texts are sequences of one-character strings so that strip(), lower(),  *)
(* substring tests and the regular expressions of the source are computed  *)
(* and not assumed.  Confidences are integers in hundredths where the      *)
(* source rounds to two decimals, and exact rationals (numerator over      *)
(* 1000 + distance in thousandths) where it compares the unrounded value.  *)
(***************************************************************************)
EXTENDS Integers, Sequences, FiniteSets, TLC

VARIABLES
    index,            \* rag_core.index: None or the FAISS index
    chunks_store,     \* rag_core.chunks_store
    chunk_sources,    \* rag_core.chunk_sources
    faiss_file,       \* FAISS_INDEX_PATH on disk
    chunks_file,      \* CHUNKS_PATH on disk
    sources_file,     \* SOURCES_PATH on disk
    metadata_file,    \* METADATA_PATH on disk
    saves,            \* the stores whose save wrote the snapshot files now on disk
    legal_qa_file,    \* LEGAL_QA_PATH on disk (seed knowledge base)
    faults,           \* number of out-of-band changes made to the snapshot files
    last,             \* the last call of the store API and its outcome
    answer,           \* the last call of retrieve_clause and its outcome
    _tokenizer,       \* relevance_reranker._tokenizer
    _model,           \* relevance_reranker._model
    _load_attempted,  \* relevance_reranker._load_attempted
    model_dir,        \* state of DEFAULT_MODEL_DIR on disk
    loads,            \* number of from_pretrained load attempts made so far
    reranked,         \* the last call of rerank_candidates and its outcome
    mutation,         \* the build_index / add_chunks call in progress, statement by statement
    ranking,          \* the _rank_candidates call in progress, statement by statement
    rerank_calls      \* the rerank_candidates call of each request thread

storeVars == <<index, chunks_store, chunk_sources>>
diskVars == <<faiss_file, chunks_file, sources_file, metadata_file, saves>>
rerankVars == <<_tokenizer, _model, _load_attempted, model_dir, loads, reranked>>
threadVars == <<mutation, ranking, rerank_calls>>
vars == <<index, chunks_store, chunk_sources, faiss_file, chunks_file, sources_file,
          metadata_file, saves, legal_qa_file, faults, last, answer, _tokenizer, _model,
          _load_attempted, model_dir, loads, reranked, mutation, ranking, rerank_calls>>

----------------------------------------------------------------------------
(* Bounds *)

\* longest chunk list handed to build_index / add_chunks in one call
MaxChunks == 2
\* vectors held by the index before further appends are left out
MaxVectors == 3
\* out-of-band changes (delete, corrupt, downgrade) applied to snapshot files
MaxFaults == 1
\* longest candidate list handed to rerank_candidates
MaxCandidates == 2
\* load attempts counted before the counter saturates
MaxLoads == 2
\* request threads that call rerank_candidates at the same time
MaxCallers == 2
\* calls of build_index and add_chunks in one run of the two-thread model
MaxMutations == 2

----------------------------------------------------------------------------
(* Program constants *)

INDEX_SCHEMA_VERSION == 2
\* a snapshot written by an earlier release of the format
OldSchemaVersion == INDEX_SCHEMA_VERSION - 1

----------------------------------------------------------------------------
(* Texts *)

TextWrapped ==
    <<"Q","u","e","s","t","i","o","n",":"," ","D","u","e","?","\n","C","l","a","u","s","e",":",
      " ","P","a","y"," ","r","e","n","t",".">>
TextNoPets ==
    <<"N","o"," ","p","e","t","s",".">>
TextNoPetsPadded ==
    <<" ","N","o"," ","p","e","t","s",".","\n">>
TextBlank ==
    <<" ","\n">>
QuestionPrefix ==
    <<"Q","u","e","s","t","i","o","n",":"," ">>
ClausePrefix ==
    <<"\n","C","l","a","u","s","e",":"," ">>
SeedQuestion ==
    <<"D","u","e","?">>
SeedContext ==
    <<"P","a","y"," ","r","e","n","t","."," ">>

----------------------------------------------------------------------------
(* String helpers: the str methods the source calls *)

Whitespace == {" ", "\n", "\t", "\r"}

MaxOf(S) == CHOOSE x \in S : \A y \in S : x >= y

\* str.lstrip() and str.rstrip()
RECURSIVE LStrip(_)
LStrip(s) == IF s # <<>> /\ Head(s) \in Whitespace THEN LStrip(Tail(s)) ELSE s
RECURSIVE RStrip(_)
RStrip(s) ==
    IF s # <<>> /\ s[Len(s)] \in Whitespace THEN RStrip(SubSeq(s, 1, Len(s) - 1)) ELSE s

\* str.strip()
Strip(s) == RStrip(LStrip(s))

----------------------------------------------------------------------------
(* The values held by the store and by the snapshot files *)

SOURCE_LEGAL_QA == "legal_qa"
SOURCE_UPLOAD == "upload"
SOURCE_UNKNOWN == "unknown"

\* index = None
NoIndex == [exists |-> FALSE, vectors |-> <<>>]
\* faiss.IndexFlatL2(dimension) followed by index.add(embeddings)
IndexFlatL2(vectors) == [exists |-> TRUE, vectors |-> vectors]
\* index.ntotal
ntotal(ix) == Len(ix.vectors)

\* embedder.encode(texts): one vector per text, a function of the text alone
Encode(texts) == [i \in 1..Len(texts) |-> [emb |-> texts[i]]]

\* a path that does not exist, and a file whose bytes do not parse
AbsentFile == [st |-> "absent", kind |-> "", items |-> <<>>]
CorruptFile == [st |-> "corrupt", kind |-> "", items |-> <<>>]
\* Path.exists()
Exists(f) == f.st # "absent"

\* json.dump(list, f) and json.load(f) of a list
JsonDumpList(xs) == [st |-> "ok", kind |-> "json_array", items |-> xs]
\* json.dump({"schema_version": v}, f)
JsonDumpMetadata(v) ==
    [st |-> "ok", kind |-> "json_object",
     items |-> <<[key |-> "schema_version", value |-> v]>>]
\* faiss.write_index(index, path)
FaissWrite(ix) == [st |-> "ok", kind |-> "faiss_flat_l2", items |-> ix.vectors]
\* json.load / faiss.read_index raise on bytes that do not parse
Parses(f, kind) == f.st = "ok" /\ f.kind = kind
\* faiss.read_index(path)
FaissRead(f) == IndexFlatL2(f.items)
\* metadata.get("schema_version"): None when the key is missing
MetadataGet(f, key) ==
    LET hits == {i \in 1..Len(f.items) : f.items[i].key = key}
    IN  IF hits = {} THEN 0 ELSE f.items[MaxOf(hits)].value

Mem(ix, cs, srcs) == [index |-> ix, chunks_store |-> cs, chunk_sources |-> srcs]
Disk(fa, ch, so, me) == [faiss |-> fa, chunks |-> ch, sources |-> so, metadata |-> me]

----------------------------------------------------------------------------
(* rag_core.py: the vector index store *)

\* [chunk.strip() for chunk in chunks if chunk and chunk.strip()]
RECURSIVE CleanChunks(_)
CleanChunks(chunks) ==
    IF chunks = <<>> THEN <<>>
    ELSE LET chunk == Head(chunks)
             stripped == Strip(chunk)
         IN  (IF chunk # <<>> /\ stripped # <<>> THEN <<stripped>> ELSE <<>>)
             \o CleanChunks(Tail(chunks))

\* [source] * n
Repeat(x, n) == [i \in 1..n |-> x]

\* the validation at the head of save_index
SaveValid(mem) ==
    ~ (\/ ~ mem.index.exists
       \/ ntotal(mem.index) = 0
       \/ mem.chunks_store = <<>>
       \/ Len(mem.chunk_sources) # Len(mem.chunks_store))

\* save_index() without the write of the sources file
save_index_without_sources(mem, disk) ==
    IF ~ SaveValid(mem)
    THEN [disk |-> disk, ok |-> FALSE]
    ELSE [disk |-> Disk(FaissWrite(mem.index),
                        JsonDumpList(mem.chunks_store),
                        disk.sources,
                        JsonDumpMetadata(INDEX_SCHEMA_VERSION)),
          ok |-> TRUE]

\* save_index(): the snapshot files after the call and the value returned
save_index(mem, disk) ==
    IF ~ SaveValid(mem)
    THEN [disk |-> disk, ok |-> FALSE]
    ELSE [disk |-> Disk(FaissWrite(mem.index),
                        JsonDumpList(mem.chunks_store),
                        JsonDumpList(mem.chunk_sources),
                        JsonDumpMetadata(INDEX_SCHEMA_VERSION)),
          ok |-> TRUE]

\* build_index(chunks, persist, source); encodeOk = FALSE is embedder.encode raising
build_index(mem, disk, chunks, persist, source, encodeOk) ==
    LET cleaned_chunks == CleanChunks(chunks)
        stored == Mem(mem.index, cleaned_chunks, Repeat(source, Len(cleaned_chunks)))
        built == Mem(IndexFlatL2(Encode(cleaned_chunks)), stored.chunks_store,
                     stored.chunk_sources)
    IN  IF cleaned_chunks = <<>>
        THEN [mem |-> Mem(NoIndex, <<>>, <<>>), disk |-> disk, raised |-> FALSE]
        ELSE IF ~ encodeOk
        THEN [mem |-> stored, disk |-> disk, raised |-> TRUE]
        ELSE [mem |-> built,
              disk |-> IF persist THEN save_index(built, disk).disk ELSE disk,
              raised |-> FALSE]

\* set(chunks_store) membership
InStore(chunk, store) == \E i \in 1..Len(store) : store[i] = chunk

\* the list comprehension without its filter
NewChunksUnfiltered(cleaned_chunks, store) == cleaned_chunks

\* [chunk for chunk in cleaned_chunks if chunk not in existing_chunks]
NewChunks(cleaned_chunks, store) ==
    SelectSeq(cleaned_chunks, LAMBDA chunk : ~ InStore(chunk, store))

\* add_chunks(chunks, persist, source): state after the call and the count returned
add_chunks(mem, disk, chunks, persist, source, encodeOk) ==
    LET cleaned_chunks == CleanChunks(chunks)
        new_chunks == NewChunks(cleaned_chunks, mem.chunks_store)
        rebuilt == build_index(mem, disk, cleaned_chunks, persist, source, encodeOk)
        extended == Mem(IndexFlatL2(mem.index.vectors \o Encode(new_chunks)),
                        mem.chunks_store \o new_chunks,
                        mem.chunk_sources \o Repeat(source, Len(new_chunks)))
    IN  IF cleaned_chunks = <<>>
        THEN [mem |-> mem, disk |-> disk, raised |-> FALSE, count |-> 0]
        ELSE IF ~ mem.index.exists \/ ntotal(mem.index) = 0 \/ mem.chunks_store = <<>>
        THEN [mem |-> rebuilt.mem, disk |-> rebuilt.disk, raised |-> rebuilt.raised,
              count |-> IF rebuilt.raised THEN -1 ELSE Len(cleaned_chunks)]
        ELSE IF new_chunks = <<>>
        THEN [mem |-> mem, disk |-> disk, raised |-> FALSE, count |-> 0]
        ELSE IF ~ encodeOk
        THEN [mem |-> mem, disk |-> disk, raised |-> TRUE, count |-> -1]
        ELSE [mem |-> extended,
              disk |-> IF persist THEN save_index(extended, disk).disk ELSE disk,
              raised |-> FALSE, count |-> Len(new_chunks)]

\* a guard that accepts every schema version
SchemaAcceptedAlways(metadata) == TRUE

\* metadata.get("schema_version") == INDEX_SCHEMA_VERSION
SchemaAccepted(metadata) ==
    MetadataGet(metadata, "schema_version") = INDEX_SCHEMA_VERSION

\* load_index() without the comparison of the sources with the chunks
load_index_unchecked_sources(mem, disk) ==
    LET loaded_index == FaissRead(disk.faiss)
        loaded_chunks == disk.chunks.items
        loaded_sources == IF Exists(disk.sources) THEN disk.sources.items
                          ELSE Repeat(SOURCE_UNKNOWN, Len(loaded_chunks))
        unchanged(ok, raised) == [mem |-> mem, ok |-> ok, raised |-> raised]
    IN  IF ~ Exists(disk.faiss) \/ ~ Exists(disk.chunks)
        THEN unchanged(FALSE, FALSE)
        ELSE IF ~ Exists(disk.metadata)
        THEN unchanged(FALSE, FALSE)
        ELSE IF ~ Parses(disk.metadata, "json_object")
        THEN unchanged(FALSE, TRUE)
        ELSE IF ~ SchemaAccepted(disk.metadata)
        THEN unchanged(FALSE, FALSE)
        ELSE IF ~ Parses(disk.faiss, "faiss_flat_l2")
        THEN unchanged(FALSE, TRUE)
        ELSE IF ~ Parses(disk.chunks, "json_array")
        THEN unchanged(FALSE, TRUE)
        ELSE IF Exists(disk.sources) /\ ~ Parses(disk.sources, "json_array")
        THEN unchanged(FALSE, TRUE)
        ELSE IF \/ ntotal(loaded_index) = 0
                \/ loaded_chunks = <<>>
                \/ ntotal(loaded_index) # Len(loaded_chunks)
        THEN unchanged(FALSE, FALSE)
        ELSE [mem |-> Mem(loaded_index, loaded_chunks, loaded_sources),
              ok |-> TRUE, raised |-> FALSE]

\* load_index(): json.load and faiss.read_index raise on a file that does not parse
load_index(mem, disk) ==
    LET loaded_index == FaissRead(disk.faiss)
        loaded_chunks == disk.chunks.items
        loaded_sources == IF Exists(disk.sources) THEN disk.sources.items
                          ELSE Repeat(SOURCE_UNKNOWN, Len(loaded_chunks))
        unchanged(ok, raised) == [mem |-> mem, ok |-> ok, raised |-> raised]
    IN  IF ~ Exists(disk.faiss) \/ ~ Exists(disk.chunks)
        THEN unchanged(FALSE, FALSE)
        ELSE IF ~ Exists(disk.metadata)
        THEN unchanged(FALSE, FALSE)
        ELSE IF ~ Parses(disk.metadata, "json_object")
        THEN unchanged(FALSE, TRUE)
        ELSE IF ~ SchemaAccepted(disk.metadata)
        THEN unchanged(FALSE, FALSE)
        ELSE IF ~ Parses(disk.faiss, "faiss_flat_l2")
        THEN unchanged(FALSE, TRUE)
        ELSE IF ~ Parses(disk.chunks, "json_array")
        THEN unchanged(FALSE, TRUE)
        ELSE IF Exists(disk.sources) /\ ~ Parses(disk.sources, "json_array")
        THEN unchanged(FALSE, TRUE)
        ELSE IF \/ ntotal(loaded_index) = 0
                \/ loaded_chunks = <<>>
                \/ ntotal(loaded_index) # Len(loaded_chunks)
                \/ Len(loaded_sources) # Len(loaded_chunks)
        THEN unchanged(FALSE, FALSE)
        ELSE [mem |-> Mem(loaded_index, loaded_chunks, loaded_sources),
              ok |-> TRUE, raised |-> FALSE]

----------------------------------------------------------------------------
(* More str methods and the regular-expression character classes *)

UpperCase ==
    <<"A","B","C","D","E","F","G","H","I","J","K","L","M","N","O","P","Q","R","S","T","U",
      "V","W","X","Y","Z">>
LowerCase ==
    <<"a","b","c","d","e","f","g","h","i","j","k","l","m","n","o","p","q","r","s","t","u",
      "v","w","x","y","z">>
Digits == {"0","1","2","3","4","5","6","7","8","9"}
LowerLetters == {LowerCase[i] : i \in 1..26}
UpperLetters == {UpperCase[i] : i \in 1..26}

LowerChar(c) ==
    IF c \in UpperLetters THEN LowerCase[CHOOSE i \in 1..26 : UpperCase[i] = c] ELSE c
UpperChar(c) ==
    IF c \in LowerLetters THEN UpperCase[CHOOSE i \in 1..26 : LowerCase[i] = c] ELSE c

\* str.lower()
Lower(s) == [i \in 1..Len(s) |-> LowerChar(s[i])]

\* str.title() of a single lower-case word
Title(s) == IF s = <<>> THEN s ELSE <<UpperChar(s[1])>> \o Tail(s)

\* s[i:] starts with p
StartsAt(s, i, p) == i + Len(p) - 1 <= Len(s) /\ SubSeq(s, i, i + Len(p) - 1) = p

\* p in s
Contains(p, s) == \E i \in 1..(Len(s) - Len(p) + 1) : StartsAt(s, i, p)

\* s[i:] for a 1-based i
From(s, i) == SubSeq(s, i, Len(s))

\* the length of the longest run of characters of class C that starts at s[i]
RECURSIVE RunLen(_, _, _)
RunLen(s, i, C) == IF i <= Len(s) /\ s[i] \in C THEN 1 + RunLen(s, i + 1, C) ELSE 0

\* str.replace(old, ""): every non-overlapping occurrence, left to right
RECURSIVE Remove(_, _)
Remove(s, old) ==
    IF s = <<>> THEN <<>>
    ELSE IF StartsAt(s, 1, old) THEN Remove(From(s, Len(old) + 1), old)
    ELSE <<Head(s)>> \o Remove(Tail(s), old)

\* str.rstrip(chars)
RECURSIVE RStripChars(_, _)
RStripChars(s, C) ==
    IF s # <<>> /\ s[Len(s)] \in C THEN RStripChars(SubSeq(s, 1, Len(s) - 1), C) ELSE s

\* [0-9a-z.]
RefChars == Digits \cup LowerLetters \cup {"."}
\* \w on lower-cased text
WordChars == Digits \cup LowerLetters \cup {"_"}
\* [\w\s,&.()-]
ActChars == WordChars \cup Whitespace \cup {",", "&", ".", "(", ")", "-"}
\* [a-z0-9]
TokenChars == Digits \cup LowerLetters

WordSection == <<"s","e","c","t","i","o","n">>
WordClause == <<"c","l","a","u","s","e">>
WordArticle == <<"a","r","t","i","c","l","e">>
WordOf == <<"o","f">>
WordIn == <<"i","n">>
WordFrom == <<"f","r","o","m">>
WordThe == <<"t","h","e">>
SuffixAct == <<" ","a","c","t">>
SuffixLaw == <<" ","l","a","w">>

----------------------------------------------------------------------------
(* rag_core.py: the legal-reference matcher *)

NoText == <<>>

\* re.search(r'(section|clause|article)\s+([0-9a-z.]+)', normalized): the
\* leftmost position with a keyword, whitespace and a non-empty identifier
SectionMatch(normalized) ==
    LET matchAt(i, w) ==
            /\ StartsAt(normalized, i, w)
            /\ RunLen(normalized, i + Len(w), Whitespace) >= 1
            /\ RunLen(normalized,
                      i + Len(w) + RunLen(normalized, i + Len(w), Whitespace),
                      RefChars) >= 1
        hits == {i \in 1..Len(normalized) :
                    \E w \in {WordSection, WordClause, WordArticle} : matchAt(i, w)}
    IN  IF hits = {} THEN [found |-> FALSE, type |-> NoText, num |-> NoText]
        ELSE LET i == CHOOSE x \in hits : \A y \in hits : x <= y
                 w == CHOOSE x \in {WordSection, WordClause, WordArticle} : matchAt(i, x)
                 n == i + Len(w) + RunLen(normalized, i + Len(w), Whitespace)
             IN  [found |-> TRUE, type |-> w,
                  num |-> SubSeq(normalized, n, n + RunLen(normalized, n, RefChars) - 1)]

\* re.search(r'(?:of|in|from)\s+(?:the\s+)?([\w\s,&.()-]+?)(?:\?|$)', normalized):
\* group(1) of the leftmost match.  After the keyword and its whitespace the
\* group runs to the first character outside its class, which has to be "?"
\* or the end of the string; "the" and whitespace are consumed before the
\* group as far as that leaves the group non-empty.
ActMatch(normalized) ==
    LET n == Len(normalized)
        \* first position after the run of group characters that starts at g
        stop(g) == g + RunLen(normalized, g, ActChars)
        ends(g) == stop(g) > g /\ (stop(g) = n + 1 \/ normalized[stop(g)] = "?")
        \* start of the group for the keyword w at i: the preferred one first
        afterWs(i, w) == i + Len(w) + RunLen(normalized, i + Len(w), Whitespace)
        hasThe(i, w) ==
            /\ StartsAt(normalized, afterWs(i, w), WordThe)
            /\ RunLen(normalized, afterWs(i, w) + 3, Whitespace) >= 1
        afterThe(i, w) ==
            afterWs(i, w) + 3 + RunLen(normalized, afterWs(i, w) + 3, Whitespace)
        groupStart(i, w) ==
            IF hasThe(i, w) /\ afterThe(i, w) < stop(afterWs(i, w))
            THEN afterThe(i, w)
            ELSE IF hasThe(i, w) /\ afterThe(i, w) - 1 < stop(afterWs(i, w))
                    /\ afterThe(i, w) - 1 > afterWs(i, w) + 3
            THEN afterThe(i, w) - 1
            ELSE IF afterWs(i, w) < stop(afterWs(i, w)) THEN afterWs(i, w)
            ELSE afterWs(i, w) - 1
        matchAt(i, w) ==
            /\ StartsAt(normalized, i, w)
            /\ RunLen(normalized, i + Len(w), Whitespace) >= 1
            /\ ends(i + Len(w) + 1)
        hits == {i \in 1..n : \E w \in {WordOf, WordIn, WordFrom} : matchAt(i, w)}
    IN  IF hits = {} THEN [found |-> FALSE, group |-> NoText]
        ELSE LET i == CHOOSE x \in hits : \A y \in hits : x <= y
                 w == CHOOSE x \in {WordOf, WordIn, WordFrom} : matchAt(i, x)
                 g == groupStart(i, w)
             IN  [found |-> TRUE, group |-> SubSeq(normalized, g, stop(g) - 1)]

\* _extract_legal_reference(query): (section_ref, act_name), NoText for None
_extract_legal_reference(query) ==
    LET normalized == Strip(Lower(query))
        section_match == SectionMatch(normalized)
        act_match == ActMatch(normalized)
        raw_act == RStripChars(Strip(act_match.group), {".", ",", "?"})
    IN  IF ~ section_match.found
        THEN [section_ref |-> NoText, act_name |-> NoText]
        ELSE [section_ref |-> Title(section_match.type) \o <<" ">> \o section_match.num,
              act_name |-> IF act_match.found
                           THEN Strip(Remove(Remove(raw_act, SuffixAct), SuffixLaw))
                           ELSE NoText]

\* chunk_sources[idx] if idx < len(chunk_sources) else "unknown" (idx 1-based here)
SourceAt(sources, idx) == IF idx <= Len(sources) THEN sources[idx] ELSE SOURCE_UNKNOWN

\* the test of _find_legal_reference_match on one chunk
ReferenceQualifies(chunk, section_ref, act_name) ==
    LET lowered == Lower(chunk)
        act_name_lower == Lower(act_name)
    IN  /\ Contains(Lower(section_ref), lowered)
        /\ \/ act_name = NoText
           \/ Contains(act_name_lower, lowered)
           \/ Contains(Remove(act_name_lower, <<" ">>), lowered)
           \/ Contains(SubSeq(act_name_lower, 1, IF Len(act_name_lower) < 5
                                                   THEN Len(act_name_lower) ELSE 5),
                       lowered)

----------------------------------------------------------------------------
(* rag_core.py: the exact-question matcher *)

\* re.sub(r"\s+", " ", s)
RECURSIVE CollapseSpaces(_)
CollapseSpaces(s) ==
    IF s = <<>> THEN <<>>
    ELSE IF Head(s) \in Whitespace
    THEN <<" ">> \o CollapseSpaces(From(s, 1 + RunLen(s, 1, Whitespace)))
    ELSE <<Head(s)>> \o CollapseSpaces(Tail(s))

\* _normalize_lookup_text(value)
_normalize_lookup_text(value) ==
    LET lowered == Strip(Lower(value))
        \* re.sub(r"[^a-z0-9\s]", " ", lowered)
        spaced == [i \in 1..Len(lowered) |->
                      IF lowered[i] \in TokenChars \cup Whitespace THEN lowered[i] ELSE " "]
    IN  CollapseSpaces(spaced)

TagQuestion == <<"q","u","e","s","t","i","o","n",":">>
TagClause == <<"\n","c","l","a","u","s","e",":">>

\* _extract_wrapped_question_and_clause(text): re.match of
\* \s*Question:\s*(.*?)\s*\nClause:\s*(.*)\Z with IGNORECASE | DOTALL; the lazy
\* first group ends where the first "\nClause:" (after optional whitespace) begins
_extract_wrapped_question_and_clause(text) ==
    LET lowered == Lower(text)
        start == 1 + RunLen(lowered, 1, Whitespace)
        body == start + Len(TagQuestion)
        marks == {i \in body..Len(lowered) : StartsAt(lowered, i, TagClause)}
    IN  IF ~ StartsAt(lowered, start, TagQuestion) \/ marks = {}
        THEN [wrapped |-> FALSE, question_text |-> NoText, clause_text |-> NoText]
        ELSE LET mark == CHOOSE x \in marks : \A y \in marks : x <= y
             IN  [wrapped |-> TRUE,
                  question_text |-> Strip(SubSeq(text, body, mark - 1)),
                  clause_text |-> Strip(From(text, mark + Len(TagClause)))]

\* the length of the common run of a[i:ahi] and b[j:bhi] (bounds inclusive)
RECURSIVE CommonRun(_, _, _, _, _, _)
CommonRun(a, b, i, ahi, j, bhi) ==
    IF i <= ahi /\ j <= bhi /\ a[i] = b[j]
    THEN 1 + CommonRun(a, b, i + 1, ahi, j + 1, bhi) ELSE 0

\* SequenceMatcher.find_longest_match(alo, ahi, blo, bhi): the longest block,
\* of those the one that starts earliest in a, of those the earliest in b
FindLongestMatch(a, b, alo, ahi, blo, bhi) ==
    LET size(i, j) == CommonRun(a, b, i, ahi, j, bhi)
        rowBest == [i \in alo..ahi |-> MaxOf({size(i, j) : j \in blo..bhi})]
        longest == MaxOf({rowBest[i] : i \in alo..ahi})
        besti == CHOOSE i \in alo..ahi :
                    rowBest[i] = longest /\ \A x \in alo..(i - 1) : rowBest[x] < longest
        bestj == CHOOSE j \in blo..bhi :
                    size(besti, j) = longest
                    /\ \A y \in blo..(j - 1) : size(besti, y) < longest
    IN  IF alo > ahi \/ blo > bhi THEN [i |-> alo, j |-> blo, size |-> 0]
        ELSE [i |-> besti, j |-> bestj, size |-> longest]

\* the number of matched characters of SequenceMatcher.get_matching_blocks()
RECURSIVE MatchedChars(_, _, _, _, _, _)
MatchedChars(a, b, alo, ahi, blo, bhi) ==
    LET m == FindLongestMatch(a, b, alo, ahi, blo, bhi)
    IN  IF m.size = 0 THEN 0
        ELSE m.size
             + MatchedChars(a, b, alo, m.i - 1, blo, m.j - 1)
             + MatchedChars(a, b, m.i + m.size, ahi, m.j + m.size, bhi)

\* SequenceMatcher(None, a, b).ratio() = 2.0 * matches / (len(a) + len(b)), as
\* the pair (numerator, denominator); 1.0 for two empty strings
Ratio(a, b) ==
    IF Len(a) + Len(b) = 0 THEN [num |-> 1, den |-> 1]
    ELSE [num |-> 2 * MatchedChars(a, b, 1, Len(a), 1, Len(b)), den |-> Len(a) + Len(b)]

\* best_score = 0.85, as a fraction
FUZZY_NUM == 85
FUZZY_DEN == 100

\* score > best_score for two fractions
RatioGreater(r, s) == r.num * s.den > s.num * r.den

----------------------------------------------------------------------------
(* rag_core.py: the lexical signal extractor *)

\* STOP_WORDS
STOP_WORDS ==
    {<<"t","h","e">>, <<"a">>, <<"a","n">>, <<"a","n","d">>, <<"o","r">>, <<"t","o">>,
     <<"o","f">>, <<"i","n">>, <<"o","n">>, <<"f","o","r">>, <<"b","y">>, <<"w","i","t","h">>,
     <<"i","s">>, <<"a","r","e">>, <<"w","a","s">>, <<"w","e","r","e">>, <<"w","h","a","t">>,
     <<"w","h","i","c","h">>, <<"w","h","o">>, <<"w","h","o","m">>, <<"w","h","e","n">>,
     <<"w","h","e","r","e">>, <<"w","h","y">>, <<"h","o","w">>, <<"d","o","e","s">>, <<"d","o">>,
     <<"d","i","d">>, <<"a","b","o","u","t">>, <<"u","n","d","e","r">>, <<"l","a","w">>}

\* QUERY_PHRASE_EXPANSIONS: the only key and its expansions
PhraseItLaw == <<"i","t"," ","l","a","w">>
ItLawExpansions ==
    <<
      <<"i","n","f","o","r","m","a","t","i","o","n"," ","t","e","c","h","n","o","l","o","g","y">>,
      <<"i","n","f","o","r","m","a","t","i","o","n"," ","t","e","c","h","n","o","l","o","g","y"," ","a","c","t">>,
      <<"c","y","b","e","r">>,
      <<"e","l","e","c","t","r","o","n","i","c"," ","r","e","c","o","r","d">>,
      <<"d","i","g","i","t","a","l"," ","s","i","g","n","a","t","u","r","e">>,
      <<"c","o","m","p","u","t","e","r">>>>

\* LEGAL_SYNONYMS as a sequence of (key, synonyms) in the order of the source
LEGAL_SYNONYMS ==
    <<[key |-> <<"l","i","a","b","i","l","i","t","y">>,
       synonyms |-> <<<<"l","i","a","b","l","e">>,
                      <<"r","e","s","p","o","n","s","i","b","l","e">>,
                      <<"a","c","c","o","u","n","t","a","b","i","l","i","t","y">>,
                      <<"o","b","l","i","g","a","t","i","o","n">>>>],
      [key |-> <<"i","n","d","e","m","n","i","t","y">>,
       synonyms |-> <<<<"i","n","d","e","m","n","i","f","i","c","a","t","i","o","n">>,
                      <<"i","n","d","e","m","n","i","f","y">>,
                      <<"i","n","d","e","m","n","i","f","i","c","a","t","i","o","n"," ","c","l","a","u","s","e">>>>],
      [key |-> <<"b","r","e","a","c","h">>,
       synonyms |-> <<<<"v","i","o","l","a","t","i","o","n">>,
                      <<"n","o","n","-","c","o","m","p","l","i","a","n","c","e">>,
                      <<"d","e","f","a","u","l","t">>,
                      <<"i","n","f","r","i","n","g","e","m","e","n","t">>>>],
      [key |-> <<"t","e","r","m","i","n","a","t","i","o","n">>,
       synonyms |-> <<<<"t","e","r","m","i","n","a","t","e">>,
                      <<"e","n","d","i","n","g">>,
                      <<"c","a","n","c","e","l","l","a","t","i","o","n">>,
                      <<"c","e","s","s","a","t","i","o","n">>>>],
      [key |-> <<"c","o","n","f","i","d","e","n","t","i","a","l">>,
       synonyms |-> <<<<"c","o","n","f","i","d","e","n","t","i","a","l","i","t","y">>,
                      <<"s","e","c","r","e","t">>,
                      <<"p","r","o","p","r","i","e","t","a","r","y">>,
                      <<"n","o","n","-","d","i","s","c","l","o","s","u","r","e">>>>],
      [key |-> <<"c","l","a","u","s","e">>,
       synonyms |-> <<<<"s","e","c","t","i","o","n">>,
                      <<"a","r","t","i","c","l","e">>,
                      <<"p","r","o","v","i","s","i","o","n">>,
                      <<"c","o","n","d","i","t","i","o","n">>,
                      <<"t","e","r","m">>>>],
      [key |-> <<"p","e","n","a","l","t","y">>,
       synonyms |-> <<<<"p","e","n","a","l","i","t","y">>,
                      <<"f","i","n","e">>,
                      <<"d","a","m","a","g","e","s">>,
                      <<"l","i","q","u","i","d","a","t","e","d"," ","d","a","m","a","g","e","s">>>>],
      [key |-> <<"j","u","r","i","s","d","i","c","t","i","o","n">>,
       synonyms |-> <<<<"j","u","r","i","s","d","i","c","t","i","o","n">>,
                      <<"g","o","v","e","r","n","i","n","g"," ","l","a","w">>,
                      <<"a","p","p","l","i","c","a","b","l","e"," ","l","a","w">>>>],
      [key |-> <<"l","i","a","b","i","l","i","t","y"," ","c","a","p">>,
       synonyms |-> <<<<"l","i","m","i","t","a","t","i","o","n"," ","o","f"," ","l","i","a","b","i","l","i","t","y">>,
                      <<"l","i","a","b","i","l","i","t","y"," ","l","i","m","i","t">>,
                      <<"c","a","p"," ","o","n"," ","d","a","m","a","g","e","s">>>>],
      [key |-> <<"f","o","r","c","e"," ","m","a","j","e","u","r","e">>,
       synonyms |-> <<<<"a","c","t"," ","o","f"," ","g","o","d">>,
                      <<"u","n","f","o","r","e","s","e","e","n"," ","c","i","r","c","u","m","s","t","a","n","c","e","s">>>>]>>

\* typo_corrections of _correct_query_spelling, in the order of the source
TYPO_CORRECTIONS ==
    <<[typo |-> <<"l","i","a","b","l">>, correct |-> <<"l","i","a","b","l","e">>],
      [typo |-> <<"i","n","d","e","m","n","i","t","y">>, correct |-> <<"i","n","d","e","m","n","i","t","y">>],
      [typo |-> <<"b","r","e","a","t","c","h">>, correct |-> <<"b","r","e","a","c","h">>],
      [typo |-> <<"t","e","r","m","i","a","t","e">>, correct |-> <<"t","e","r","m","i","n","a","t","e">>],
      [typo |-> <<"c","l","a","u","s","e">>, correct |-> <<"c","l","a","u","s","e">>],
      [typo |-> <<"p","e","n","n","a","l","t","y">>, correct |-> <<"p","e","n","a","l","t","y">>],
      [typo |-> <<"j","u","r","i","s","d","i","c","t","i","o","n">>, correct |-> <<"j","u","r","i","s","d","i","c","t","i","o","n">>]>>

\* re.sub(r'\b<typo>\b', correct, s): occurrences delimited by non-word
\* characters, scanned from position i
RECURSIVE ReplaceWord(_, _, _, _)
ReplaceWord(s, i, typo, correct) ==
    IF i > Len(s) THEN <<>>
    ELSE IF /\ StartsAt(s, i, typo)
            /\ (i = 1 \/ s[i - 1] \notin WordChars)
            /\ (i + Len(typo) > Len(s) \/ s[i + Len(typo)] \notin WordChars)
    THEN correct \o ReplaceWord(s, i + Len(typo), typo, correct)
    ELSE <<s[i]>> \o ReplaceWord(s, i + 1, typo, correct)

RECURSIVE ApplyCorrections(_, _)
ApplyCorrections(s, k) ==
    IF k > Len(TYPO_CORRECTIONS) THEN s
    ELSE ApplyCorrections(ReplaceWord(s, 1, TYPO_CORRECTIONS[k].typo,
                                      TYPO_CORRECTIONS[k].correct), k + 1)

\* _correct_query_spelling(query)
_correct_query_spelling(query) == ApplyCorrections(Lower(query), 1)

\* re.findall(r"[a-z0-9]+", s)
RECURSIVE Tokens(_)
Tokens(s) ==
    IF s = <<>> THEN <<>>
    ELSE IF Head(s) \in TokenChars
    THEN <<SubSeq(s, 1, RunLen(s, 1, TokenChars))>>
         \o Tokens(From(s, 1 + RunLen(s, 1, TokenChars)))
    ELSE Tokens(Tail(s))

InSeq(x, xs) == \E i \in 1..Len(xs) : xs[i] = x

\* a synonym table that is never consulted
SynonymsForNone(terms) == <<>>

\* the synonyms added for the query terms, in the order of the terms
RECURSIVE SynonymsFor(_)
SynonymsFor(terms) ==
    IF terms = <<>> THEN <<>>
    ELSE LET keys == {k \in 1..Len(LEGAL_SYNONYMS) : LEGAL_SYNONYMS[k].key = Head(terms)}
         IN  (IF keys = {} THEN <<>>
              ELSE LEGAL_SYNONYMS[CHOOSE k \in keys : TRUE].synonyms)
             \o SynonymsFor(Tail(terms))

\* _extract_query_terms(query): (query_terms, expanded_phrases)
_extract_query_terms(query) ==
    LET normalized_query == Strip(Lower(_correct_query_spelling(query)))
        tokens == Tokens(normalized_query)
        query_terms == SelectSeq(tokens, LAMBDA token : Len(token) > 2 /\ token \notin STOP_WORDS)
        from_phrases == IF Contains(PhraseItLaw, normalized_query) THEN ItLawExpansions ELSE <<>>
        from_it == IF InSeq(<<"i", "t">>, tokens) /\ ~ InSeq(ItLawExpansions[1], from_phrases)
                   THEN ItLawExpansions ELSE <<>>
    IN  [query_terms |-> query_terms,
         expanded_phrases |-> from_phrases \o from_it \o SynonymsFor(query_terms)]

\* sum(1 for term in terms if term in lowered_clause)
RECURSIVE CountHits(_, _)
CountHits(terms, lowered_clause) ==
    IF terms = <<>> THEN 0
    ELSE (IF Contains(Head(terms), lowered_clause) THEN 1 ELSE 0)
         + CountHits(Tail(terms), lowered_clause)

----------------------------------------------------------------------------
(* Queries and corpus of the retrieval specification *)

TextLiabilityQA ==
    <<"Q","u","e","s","t","i","o","n",":"," ","W","h","a","t"," ","i","s"," ","l","i","a","b",
      "i","l","i","t","y","?","\n","C","l","a","u","s","e",":"," ","L","i","a","b","i","l","i",
      "t","y"," ","i","s"," ","l","e","g","a","l"," ","r","e","s","p","o","n","s","i","b","i",
      "l","i","t","y",".">>
TextSectionQA ==
    <<"Q","u","e","s","t","i","o","n",":"," ","W","h","a","t"," ","i","s"," ","S","e","c","t",
      "i","o","n"," ","5","?","\n","C","l","a","u","s","e",":"," ","S","e","c","t","i","o","n",
      " ","5"," ","c","a","p","s"," ","d","a","m","a","g","e","s",".">>
TextSampleAct ==
    <<"S","e","c","t","i","o","n"," ","5"," ","o","f"," ","t","h","e"," ","S","a","m","p","l",
      "e"," ","A","c","t"," ","l","i","m","i","t","s"," ","l","i","a","b","i","l","i","t","y",
      ".">>
QueryReferenceWithAct ==
    <<"W","h","a","t"," ","i","s"," ","s","e","c","t","i","o","n"," ","5"," ","o","f"," ","t",
      "h","e"," ","s","a","m","p","l","e"," ","a","c","t","?">>
QueryReference ==
    <<"w","h","a","t"," ","i","s"," ","s","e","c","t","i","o","n"," ","5","?">>
QueryExact ==
    <<"W","h","a","t"," ","i","s"," ","l","i","a","b","i","l","i","t","y","?">>
QueryTypo ==
    <<"W","h","a","t"," ","i","s"," ","l","i","a","b","i","l","t","y","?">>
QueryRatio85 ==
    <<"w","h","a","t"," ","i","s"," ","t","h","i","s"," ","l","i","a","b","i","l","i","t","y">>
QueryRatio80 ==
    <<"w","h","a","t"," ","w","a","s"," ","t","h","e"," ","l","i","a","b","i","l","i","t","y">>
QueryNoHits ==
    <<"W","h","e","n"," ","d","o","e","s"," ","t","h","e"," ","l","e","a","s","e"," ","e","n",
      "d">>
QueryResponsibility ==
    <<"T","e","l","l"," ","m","e"," ","a","b","o","u","t"," ","r","e","s","p","o","n","s",
      "i","b","i","l","i","t","y"," ","u","n","d","e","r"," ","c","o","n","t","r","a","c",
      "t","s">>
TextLiabilityNoteQA ==
    <<"Q","u","e","s","t","i","o","n",":"," ","W","h","a","t"," ","i","s"," ","l","i","a",
      "b","i","l","i","t","y","?","\n","C","l","a","u","s","e",":"," ","S","e","e"," ","t",
      "h","e"," ","n","o","t","e",".">>
TextTypoQA ==
    <<"Q","u","e","s","t","i","o","n",":"," ","W","h","a","t"," ","i","s"," ","l","i","a",
      "b","i","l","t","y","?","\n","C","l","a","u","s","e",":"," ","A"," ","m","i","s","s",
      "p","e","l","t"," ","e","n","t","r","y",".">>
QueryManyTerms ==
    <<"S","a","m","p","l","e"," ","a","c","t"," ","l","i","m","i","t","s"," ",
      "l","i","a","b","i","l","i","t","y">>
HeadingKnowledgeBase ==
    <<"K","n","o","w","l","e","d","g","e"," ","B","a","s","e"," ","C","o","n","t","e","x","t",
      ":","\n">>
HeadingAdditional ==
    <<"\n","\n","A","d","d","i","t","i","o","n","a","l"," ","R","e","t","r","i","e","v","e","d",
      " ","C","o","n","t","e","x","t"," ","(">>
HeadingClose ==
    <<")",":","\n">>
LabelUpload ==
    <<"U","p","l","o","a","d","e","d"," ","D","o","c","u","m","e","n","t">>
LabelKnowledgeBase ==
    <<"K","n","o","w","l","e","d","g","e"," ","B","a","s","e">>

Queries == {QueryReferenceWithAct, QueryReference, QueryExact, QueryTypo, QueryRatio85,
            QueryRatio80, QueryNoHits, QueryResponsibility, QueryManyTerms}

CorpusTexts == {TextLiabilityQA, TextSectionQA, TextSampleAct}

\* more knowledge-base entries for the question matcher: the question of
\* TextLiabilityQA with another clause, and a misspelt question
MatchTexts == {TextLiabilityNoteQA, TextTypoQA}

\* what the matchers and the ranker derive from the query alone
QueryAnalysis(query) ==
    [ref |-> _extract_legal_reference(query),
     normalized_query |-> _normalize_lookup_text(query),
     terms |-> _extract_query_terms(query)]

\* what the matchers and the ranker derive from one stored chunk, given the
\* analysis q of the query, the chunk's wrapped parts and its normalized question
AnalyseChunk(q, chunk, extracted, question) ==
    [qualifies |-> ReferenceQualifies(chunk, q.ref.section_ref, q.ref.act_name),
     has_question |-> extracted.wrapped /\ extracted.question_text # NoText,
     exact |-> question = q.normalized_query,
     score |-> Ratio(q.normalized_query, question),
     keyword_hits |-> CountHits(q.terms.query_terms, Lower(chunk)),
     phrase_hits |-> CountHits(q.terms.expanded_phrases, Lower(chunk))]

WrappedQuestion(extracted) == _normalize_lookup_text(extracted.question_text)

WrappedAnalysis(q, chunk, extracted) ==
    AnalyseChunk(q, chunk, extracted, WrappedQuestion(extracted))

ChunkAnalysis(query, chunk) ==
    WrappedAnalysis(QueryAnalysis(query), chunk, _extract_wrapped_question_and_clause(chunk))

\* the analyses of the queries and texts of the specifications, computed once
QueryTable == [query \in Queries |-> QueryAnalysis(query)]
ChunkTable == [query \in Queries |-> [chunk \in CorpusTexts \cup MatchTexts |->
                  ChunkAnalysis(query, chunk)]]

OfQuery(query) == QueryTable[query]
OfChunk(query, chunk) == ChunkTable[query][chunk]

----------------------------------------------------------------------------
(* rag_core.py: the two matchers over the store *)

\* the confidence retrieve_clause reports for the two matcher tiers, in hundredths
LEGAL_REFERENCE_MATCH_CONFIDENCE == 95
EXACT_QUESTION_CONFIDENCE == 99

\* the match built for the last of the qualifying positions `hits`
LastQualifying(mem, hits) ==
    IF hits = {}
    THEN [found |-> FALSE, clause |-> NoText, source |-> SOURCE_UNKNOWN,
          retrieval_confidence |-> 0]
    ELSE [found |-> TRUE, clause |-> mem.chunks_store[MaxOf(hits)],
          source |-> SourceAt(mem.chunk_sources, MaxOf(hits)),
          retrieval_confidence |-> LEGAL_REFERENCE_MATCH_CONFIDENCE]

\* the match built for the first of the qualifying positions `hits`
FirstQualifying(mem, hits) ==
    IF hits = {}
    THEN [found |-> FALSE, clause |-> NoText, source |-> SOURCE_UNKNOWN,
          retrieval_confidence |-> 0]
    ELSE LET idx == CHOOSE x \in hits : \A y \in hits : x <= y
         IN  [found |-> TRUE, clause |-> mem.chunks_store[idx],
              source |-> SourceAt(mem.chunk_sources, idx),
              retrieval_confidence |-> LEGAL_REFERENCE_MATCH_CONFIDENCE]

\* _find_legal_reference_match(query): the first qualifying chunk in storage order
_find_legal_reference_match(query, mem) ==
    IF OfQuery(query).ref.section_ref = NoText
    THEN FirstQualifying(mem, {})
    ELSE FirstQualifying(mem, {idx \in 1..Len(mem.chunks_store) :
                                  OfChunk(query, mem.chunks_store[idx]).qualifies})

\* the loop of _find_exact_question_match over chunks_store[k:], carrying
\* best_match / best_score; ScanChunk is the loop body for chunk k with analysis a
RECURSIVE QuestionScan(_, _, _, _, _)
RECURSIVE ScanChunk(_, _, _, _, _, _)
\* the loop body with a comparison that lets a later chunk of equal ratio win
ScanChunkLatest(query, store, k, best_match, best_score, a) ==
    IF ~ a.has_question
    THEN QuestionScan(query, store, k + 1, best_match, best_score)
    ELSE IF a.exact
    THEN [found |-> TRUE, chunk |-> store[k]]
    ELSE IF ~ RatioGreater(best_score, a.score)
    THEN QuestionScan(query, store, k + 1, [found |-> TRUE, chunk |-> store[k]], a.score)
    ELSE QuestionScan(query, store, k + 1, best_match, best_score)

ScanChunk(query, store, k, best_match, best_score, a) ==
    IF ~ a.has_question
    THEN QuestionScan(query, store, k + 1, best_match, best_score)
    ELSE IF a.exact
    THEN [found |-> TRUE, chunk |-> store[k]]
    ELSE IF RatioGreater(a.score, best_score)
    THEN QuestionScan(query, store, k + 1, [found |-> TRUE, chunk |-> store[k]], a.score)
    ELSE QuestionScan(query, store, k + 1, best_match, best_score)

QuestionScan(query, store, k, best_match, best_score) ==
    IF k > Len(store) THEN best_match
    ELSE ScanChunk(query, store, k, best_match, best_score, OfChunk(query, store[k]))

\* _find_exact_question_match(query)
_find_exact_question_match(query, mem) ==
    IF OfQuery(query).normalized_query = NoText
    THEN [found |-> FALSE, chunk |-> NoText]
    ELSE QuestionScan(query, mem.chunks_store, 1, [found |-> FALSE, chunk |-> NoText],
                      [num |-> FUZZY_NUM, den |-> FUZZY_DEN])

----------------------------------------------------------------------------
(* rag_core.py: the hybrid ranker *)

MIN_CONFIDENCE_SCORE == 30
LEGAL_REFERENCE_CONFIDENCE_THRESHOLD == 25
MAX_RETRIEVAL_CANDIDATES == 50

\* the weights of combined_score, in hundredths
SEMANTIC_WEIGHT == 82
KEYWORD_WEIGHT == 4
PHRASE_WEIGHT == 6
KEYWORD_BOOST_CAP == 15
SOURCE_BONUS == 3

\* distances are in thousandths: confidence = 1 / (1 + d) = 1000 / (1000 + distance)
DistanceUnit == 1000

\* row["combined_score"] of a is greater than that of b
ScoreGreater(a, b) == a.score_num * b.score_den > b.score_num * a.score_den

\* hits ordered by distance, hits at equal distance in the order of their positions
SortByDistance(hits) ==
    LET n == Len(hits)
        ahead(i) == {j \in 1..n : \/ hits[j].distance < hits[i].distance
                                  \/ hits[j].distance = hits[i].distance /\ j < i}
    IN  [p \in 1..n |-> hits[CHOOSE i \in 1..n : Cardinality(ahead(i)) = p - 1]]

\* the rows left in the order of the search
SortNotAtAll(rows) == rows

\* ranked.sort(key=combined_score, reverse=True): stable, rows with equal score
\* keep their order
SortByScore(rows) ==
    LET n == Len(rows)
        ahead(i) == {j \in 1..n : \/ ScoreGreater(rows[j], rows[i])
                                  \/ ~ ScoreGreater(rows[i], rows[j]) /\ j < i}
    IN  [p \in 1..n |-> rows[CHOOSE i \in 1..n : Cardinality(ahead(i)) = p - 1]]

\* index.search(q_embedding, k): the k nearest stored vectors as (distance, idx),
\* nearest first, the lower position first among equal distances
Search(ix, dist, k) ==
    LET all == [idx \in 1..ntotal(ix) |-> [distance |-> dist[ix.vectors[idx].emb], idx |-> idx]]
    IN  SubSeq(SortByDistance(all), 1, k)

\* the row with a keyword boost that is not capped
RowUncapped(hit, clause_text, source, a) ==
    LET keyword_boost == KEYWORD_WEIGHT * a.keyword_hits + PHRASE_WEIGHT * a.phrase_hits
        source_bonus == IF source = SOURCE_LEGAL_QA THEN SOURCE_BONUS ELSE 0
    IN  [score_num |-> SEMANTIC_WEIGHT * DistanceUnit
                       + (keyword_boost + source_bonus) * (DistanceUnit + hit.distance),
         score_den |-> DistanceUnit + hit.distance,
         distance |-> hit.distance,
         lexical_hits |-> a.keyword_hits + a.phrase_hits,
         keyword_hits |-> a.keyword_hits,
         phrase_hits |-> a.phrase_hits,
         clause |-> clause_text,
         source |-> source,
         idx |-> hit.idx]

\* the row built by the loop body of _rank_candidates from a hit, the text and
\* source at its position and the lexical analysis a of that text
Row(hit, clause_text, source, a) ==
    LET weighted == KEYWORD_WEIGHT * a.keyword_hits + PHRASE_WEIGHT * a.phrase_hits
        keyword_boost == IF weighted < KEYWORD_BOOST_CAP THEN weighted ELSE KEYWORD_BOOST_CAP
        source_bonus == IF source = SOURCE_LEGAL_QA THEN SOURCE_BONUS ELSE 0
    IN  [\* combined_score in hundredths = score_num / score_den
         score_num |-> SEMANTIC_WEIGHT * DistanceUnit
                       + (keyword_boost + source_bonus) * (DistanceUnit + hit.distance),
         score_den |-> DistanceUnit + hit.distance,
         \* retrieval_confidence = DistanceUnit / (DistanceUnit + distance)
         distance |-> hit.distance,
         lexical_hits |-> a.keyword_hits + a.phrase_hits,
         keyword_hits |-> a.keyword_hits,
         phrase_hits |-> a.phrase_hits,
         clause |-> clause_text,
         source |-> source,
         idx |-> hit.idx]

Candidate(query, mem, hit) ==
    Row(hit, mem.chunks_store[hit.idx], SourceAt(mem.chunk_sources, hit.idx),
        OfChunk(query, mem.chunks_store[hit.idx]))

\* _rank_candidates gets as far as embedder.encode([query])
RankerEncodes(mem) ==
    mem.index.exists /\ ntotal(mem.index) # 0 /\ mem.chunks_store # <<>>

\* _rank_candidates(query); dist gives the L2 distance of the query embedding
\* to the embedding of each indexed text
_rank_candidates(query, mem, dist) ==
    IF ~ RankerEncodes(mem) THEN <<>>
    ELSE LET candidate_count == IF MAX_RETRIEVAL_CANDIDATES < ntotal(mem.index)
                                THEN MAX_RETRIEVAL_CANDIDATES ELSE ntotal(mem.index)
             found == Search(mem.index, dist, candidate_count)
             valid == SelectSeq(found, LAMBDA hit : hit.idx <= Len(mem.chunks_store))
             ranked == [k \in 1..Len(valid) |-> Candidate(query, mem, valid[k])]
         IN  SortByScore(ranked)

----------------------------------------------------------------------------
(* rag_core.py: the retrieval orchestrator *)

\* the confidence cut to two decimals instead of rounded
RoundedDown(distance) == (100 * DistanceUnit) \div (DistanceUnit + distance)

\* round(1 / (1 + d), 2) in hundredths, ties to even
RoundedConfidence(distance) ==
    LET den == DistanceUnit + distance
        whole == (100 * DistanceUnit) \div den
        rest == (100 * DistanceUnit) % den
    IN  IF 2 * rest > den THEN whole + 1
        ELSE IF 2 * rest < den THEN whole
        ELSE IF whole % 2 = 0 THEN whole ELSE whole + 1

\* 1 / (1 + d) < threshold, the threshold in hundredths
ConfidenceBelow(distance, threshold) ==
    100 * DistanceUnit < threshold * (DistanceUnit + distance)

\* the last candidate of `ranked` from a source
LastFrom(ranked, source) ==
    LET hits == {k \in 1..Len(ranked) : ranked[k].source = source}
    IN  IF hits = {} THEN 0 ELSE CHOOSE k \in hits : \A j \in hits : k >= j

\* the first candidate of `ranked` from the knowledge base
FirstFrom(ranked, source) ==
    LET hits == {k \in 1..Len(ranked) : ranked[k].source = source}
    IN  IF hits = {} THEN 0 ELSE CHOOSE k \in hits : \A j \in hits : k <= j

MergedContext(kb_clause, best_clause, best_source) ==
    HeadingKnowledgeBase \o kb_clause \o HeadingAdditional
    \o (IF best_source = SOURCE_UPLOAD THEN LabelUpload ELSE LabelKnowledgeBase)
    \o HeadingClose \o best_clause

\* what retrieve_clause returns: (clause, confidence); has_clause / has_confidence
\* are FALSE for None; tier names the return statement taken
Retrieved(tier, has_clause, clause, has_confidence, confidence) ==
    [tier |-> tier, has_clause |-> has_clause, clause |-> clause,
     has_confidence |-> has_confidence, confidence |-> confidence]

\* one threshold whatever the lexical hits
ConfidenceThresholdStrict(best_lexical_hits) == MIN_CONFIDENCE_SCORE

\* confidence_threshold in retrieve_clause
ConfidenceThreshold(best_lexical_hits) ==
    IF best_lexical_hits = 0 THEN MIN_CONFIDENCE_SCORE
    ELSE LEGAL_REFERENCE_CONFIDENCE_THRESHOLD

\* the quality bar of the knowledge-base candidate with the lenient threshold
KbQualifiesLenient(candidate) ==
    \/ ~ ConfidenceBelow(candidate.distance, LEGAL_REFERENCE_CONFIDENCE_THRESHOLD)
    \/ candidate.lexical_hits > 0

\* kb_confidence >= MIN_CONFIDENCE_SCORE or kb_lexical_hits > 0
KbQualifies(candidate) ==
    \/ ~ ConfidenceBelow(candidate.distance, MIN_CONFIDENCE_SCORE)
    \/ candidate.lexical_hits > 0

\* the semantic tier of retrieve_clause, from `if not ranked` on
SemanticTier(ranked) ==
    LET best_candidate == ranked[1]
        rounded_confidence == RoundedConfidence(best_candidate.distance)
        confidence_threshold == ConfidenceThreshold(best_candidate.lexical_hits)
        kb == FirstFrom(ranked, SOURCE_LEGAL_QA)
        best_knowledge_base_candidate == ranked[kb]
        nearer == IF best_candidate.distance < best_knowledge_base_candidate.distance
                  THEN best_candidate.distance
                  ELSE best_knowledge_base_candidate.distance
    IN  IF ranked = <<>>
        THEN Retrieved("no_candidates", FALSE, NoText, FALSE, 0)
        ELSE IF ConfidenceBelow(best_candidate.distance, confidence_threshold)
        THEN Retrieved("below_threshold", FALSE, NoText, TRUE, rounded_confidence)
        ELSE IF /\ kb # 0
                /\ best_knowledge_base_candidate.clause # best_candidate.clause
                /\ KbQualifies(best_knowledge_base_candidate)
        THEN Retrieved("merged", TRUE,
                       MergedContext(best_knowledge_base_candidate.clause,
                                     best_candidate.clause, best_candidate.source),
                       TRUE, RoundedConfidence(nearer))
        ELSE Retrieved("semantic", TRUE, best_candidate.clause, TRUE, rounded_confidence)

\* the tiers with the exact-question tier tried before the legal-reference tier
TiersExactFirst(legal_ref_match, exact_match, ranked) ==
    IF exact_match.found
    THEN Retrieved("exact_question", TRUE, exact_match.chunk, TRUE,
                   EXACT_QUESTION_CONFIDENCE)
    ELSE IF legal_ref_match.found
    THEN Retrieved("legal_reference", TRUE, legal_ref_match.clause, TRUE,
                   legal_ref_match.retrieval_confidence)
    ELSE SemanticTier(ranked)

\* the tiers of retrieve_clause in order, given what each of them found
Tiers(legal_ref_match, exact_match, ranked) ==
    IF legal_ref_match.found
    THEN Retrieved("legal_reference", TRUE, legal_ref_match.clause, TRUE,
                   legal_ref_match.retrieval_confidence)
    ELSE IF exact_match.found
    THEN Retrieved("exact_question", TRUE, exact_match.chunk, TRUE,
                   EXACT_QUESTION_CONFIDENCE)
    ELSE SemanticTier(ranked)

\* retrieve_clause(query)
retrieve_clause(query, mem, dist) ==
    Tiers(_find_legal_reference_match(query, mem),
          _find_exact_question_match(query, mem),
          _rank_candidates(query, mem, dist))

----------------------------------------------------------------------------
(* relevance_reranker.py *)

\* RELEVANCE_THRESHOLD, the default of RERANKER_MIN_SCORE, in hundredths
RELEVANCE_THRESHOLD == 50

\* what can be found at DEFAULT_MODEL_DIR: nothing, files that from_pretrained
\* rejects, a tokenizer without usable model weights, the complete artifact
ModelDirs == {"missing", "corrupt", "tokenizer_only", "ok"}

Reranker(tokenizer, model, attempted, count) ==
    [_tokenizer |-> tokenizer, _model |-> model, _load_attempted |-> attempted,
     loads |-> count]

\* _load_model() without the _load_attempted short circuit
_load_model_retrying(rr, dir) ==
    LET tried == Reranker(rr._tokenizer, rr._model, TRUE,
                          IF rr.loads < MaxLoads THEN rr.loads + 1 ELSE rr.loads)
    IN  IF rr._tokenizer /\ rr._model THEN [rr |-> rr, ok |-> TRUE]
        ELSE IF dir = "missing" THEN [rr |-> tried, ok |-> FALSE]
        ELSE IF dir = "corrupt" \/ dir = "tokenizer_only"
        THEN [rr |-> Reranker(FALSE, FALSE, TRUE, tried.loads), ok |-> FALSE]
        ELSE [rr |-> Reranker(TRUE, TRUE, TRUE, tried.loads), ok |-> TRUE]

\* _load_model(): the globals after the call and the value returned; loads
\* counts the calls that get past the _load_attempted test
_load_model(rr, dir) ==
    LET tried == Reranker(rr._tokenizer, rr._model, TRUE,
                          IF rr.loads < MaxLoads THEN rr.loads + 1 ELSE rr.loads)
    IN  IF rr._tokenizer /\ rr._model THEN [rr |-> rr, ok |-> TRUE]
        ELSE IF rr._load_attempted THEN [rr |-> rr, ok |-> FALSE]
        ELSE IF dir = "missing" THEN [rr |-> tried, ok |-> FALSE]
        ELSE IF dir = "corrupt" \/ dir = "tokenizer_only"
        THEN [rr |-> Reranker(FALSE, FALSE, TRUE, tried.loads), ok |-> FALSE]
        ELSE [rr |-> Reranker(TRUE, TRUE, TRUE, tried.loads), ok |-> TRUE]

\* the outcome of scoring a candidate on which the tokenizer or the model raises
RAISES == -1

NoBest == [found |-> FALSE, clause |-> NoText, reranker_score |-> 0]

\* the loop with a comparison that lets a later candidate of equal score win
RECURSIVE ScoreCandidatesLatest(_, _, _, _)
ScoreCandidatesLatest(candidates, outcomes, k, best) ==
    IF k > Len(candidates) THEN [best |-> best, raised |-> FALSE]
    ELSE LET clause == candidates[k].clause
             row == [found |-> TRUE, clause |-> clause, reranker_score |-> outcomes[k]]
         IN  IF clause = NoText THEN ScoreCandidatesLatest(candidates, outcomes, k + 1, best)
             ELSE IF outcomes[k] = RAISES THEN [best |-> best, raised |-> TRUE]
             ELSE IF ~ best.found \/ row.reranker_score >= best.reranker_score
             THEN ScoreCandidatesLatest(candidates, outcomes, k + 1, row)
             ELSE ScoreCandidatesLatest(candidates, outcomes, k + 1, best)

\* the loop of rerank_candidates over candidates[k:], carrying best; outcomes[k]
\* is the relevance score the model gives candidate k, or "raise" when the
\* tokenizer or the model raises on it
RECURSIVE ScoreCandidates(_, _, _, _)
ScoreCandidates(candidates, outcomes, k, best) ==
    IF k > Len(candidates) THEN [best |-> best, raised |-> FALSE]
    ELSE LET clause == candidates[k].clause
             row == [found |-> TRUE, clause |-> clause, reranker_score |-> outcomes[k]]
         IN  IF clause = NoText THEN ScoreCandidates(candidates, outcomes, k + 1, best)
             ELSE IF outcomes[k] = RAISES THEN [best |-> best, raised |-> TRUE]
             ELSE IF ~ best.found \/ row.reranker_score > best.reranker_score
             THEN ScoreCandidates(candidates, outcomes, k + 1, row)
             ELSE ScoreCandidates(candidates, outcomes, k + 1, best)

\* rerank_candidates(query, candidates, min_score); min_score = -1 stands for None
rerank_candidates(rr, dir, candidates, min_score, outcomes) ==
    LET loaded == _load_model(rr, dir)
        threshold == IF min_score = -1 THEN RELEVANCE_THRESHOLD ELSE min_score
        scored == ScoreCandidates(candidates, outcomes, 1, NoBest)
        result(r, best, raised) == [rr |-> r, best |-> best, raised |-> raised]
    IN  IF candidates = <<>> THEN result(rr, NoBest, FALSE)
        ELSE IF ~ loaded.ok THEN result(loaded.rr, NoBest, FALSE)
        ELSE IF scored.raised THEN result(loaded.rr, NoBest, TRUE)
        ELSE IF ~ scored.best.found THEN result(loaded.rr, NoBest, FALSE)
        ELSE IF scored.best.reranker_score < threshold THEN result(loaded.rr, NoBest, FALSE)
        ELSE result(loaded.rr, scored.best, FALSE)

----------------------------------------------------------------------------
(* The seed knowledge base (legal_qa.json) *)

\* a seed with a question/context pair, a pair without question and a pair
\* whose context is blank
SeedEntries ==
    <<[question |-> SeedQuestion, context |-> SeedContext],
      [question |-> <<>>, context |-> TextNoPetsPadded],
      [question |-> SeedQuestion, context |-> TextBlank]>>
\* a seed in which no entry has a context
SeedEntriesNoContext == <<[question |-> SeedQuestion, context |-> <<>>]>>

\* what an operator can leave at LEGAL_QA_PATH instead of the seed
BadSeedFiles == {AbsentFile, CorruptFile, JsonDumpList(SeedEntriesNoContext)}

\* the loop of initialize_vector_db_from_legal_qa that builds `contexts`
RECURSIVE SeedContexts(_)
SeedContexts(data) ==
    IF data = <<>> THEN <<>>
    ELSE LET item == Head(data)
             context == Strip(item.context)
             question == Strip(item.question)
             searchable_text == IF question # <<>>
                                THEN QuestionPrefix \o question \o ClausePrefix \o context
                                ELSE context
         IN  (IF context = <<>> THEN <<>> ELSE <<searchable_text>>)
             \o SeedContexts(Tail(data))

\* initialize_vector_db_from_legal_qa(): load_index() is called outside the try
\* block, the seed is read and the index built inside it
initialize_vector_db_from_legal_qa(mem, disk, seed, encodeOk) ==
    LET loaded == load_index(mem, disk)
        contexts == SeedContexts(seed.items)
        built == build_index(mem, disk, contexts, TRUE, SOURCE_LEGAL_QA, encodeOk)
        result(m, d, ok, raised) == [mem |-> m, disk |-> d, ok |-> ok, raised |-> raised]
    IN  IF loaded.raised THEN result(mem, disk, FALSE, TRUE)
        ELSE IF loaded.ok THEN result(loaded.mem, disk, TRUE, FALSE)
        ELSE IF ~ Exists(seed) THEN result(mem, disk, FALSE, FALSE)
        ELSE IF ~ Parses(seed, "json_array") THEN result(mem, disk, FALSE, FALSE)
        ELSE IF contexts = <<>> THEN result(mem, disk, FALSE, FALSE)
        ELSE IF built.raised THEN result(built.mem, built.disk, FALSE, FALSE)
        ELSE result(built.mem, built.disk, TRUE, FALSE)

----------------------------------------------------------------------------
(* Inputs of the store API *)

\* chunk texts handed to build_index / add_chunks: a wrapped knowledge-base
\* entry, an upload with surrounding whitespace and a blank string
RawChunks == {TextWrapped, TextNoPetsPadded, TextBlank}

SeqsUpTo(S, n) == UNION {[1..k -> S] : k \in 0..n}

ChunkLists == SeqsUpTo(RawChunks, MaxChunks)

\* the chunk lists of the calls that persist: the knowledge base, an upload,
\* the two together, and a list with nothing in it
KnowledgeBaseLists == {<<TextWrapped>>, <<TextWrapped, TextNoPetsPadded>>, <<TextBlank>>}
UploadLists == {<<TextNoPetsPadded>>, <<TextBlank, TextWrapped>>}
\* the chunk lists of the calls made before a save is cut short
CrashLists == {<<TextWrapped>>, <<TextNoPetsPadded>>, <<TextWrapped, TextNoPetsPadded>>}

----------------------------------------------------------------------------
(* State *)

CurMem == Mem(index, chunks_store, chunk_sources)
CurDisk == Disk(faiss_file, chunks_file, sources_file, metadata_file)

SetMem(m) ==
    /\ index' = m.index
    /\ chunks_store' = m.chunks_store
    /\ chunk_sources' = m.chunk_sources

SetDisk(d) ==
    /\ faiss_file' = d.faiss
    /\ chunks_file' = d.chunks
    /\ sources_file' = d.sources
    /\ metadata_file' = d.metadata

\* a call of the store API: the chunk list after cleaning, the source tag, and
\* the outcome (raised, the count returned by add_chunks, the boolean returned
\* by save_index / load_index / initialize_vector_db_from_legal_qa)
Called(op, chunks, source, raised, count, ok) ==
    [op |-> op, chunks |-> chunks, source |-> source,
     raised |-> raised, count |-> count, ok |-> ok]

NoCall == Called("none", <<>>, "", FALSE, -1, FALSE)

\* the candidate at position k of `ranked` as the orchestrator reads it; the
\* distance is -1 when there is no such candidate
Seen(ranked, k) ==
    IF k = 0 \/ k > Len(ranked)
    THEN [distance |-> -1, lexical_hits |-> -1, clause |-> NoText, source |-> SOURCE_UNKNOWN]
    ELSE [distance |-> ranked[k].distance, lexical_hits |-> ranked[k].lexical_hits,
          clause |-> ranked[k].clause, source |-> ranked[k].source]

\* the last call if it was one of retrieve_clause: the query, what was returned, and the distance and
\* lexical hits of the best-ranked candidate when the semantic tier ran
Answered(query, r, ranked, raised) ==
    [query |-> query, tier |-> r.tier, has_clause |-> r.has_clause, clause |-> r.clause,
     has_confidence |-> r.has_confidence, confidence |-> r.confidence,
     ranked |-> Len(ranked),
     best_distance |-> IF ranked = <<>> THEN -1 ELSE ranked[1].distance,
     best_lexical_hits |-> IF ranked = <<>> THEN -1 ELSE ranked[1].lexical_hits,
     best_clause |-> IF ranked = <<>> THEN NoText ELSE ranked[1].clause,
     best_source |-> Seen(ranked, 1).source,
     kb |-> Seen(ranked, FirstFrom(ranked, SOURCE_LEGAL_QA)),
     raised |-> raised]

\* the last call if it was one of _find_exact_question_match: the query and the
\* chunk returned
Matched(query, r) ==
    Answered(query, Retrieved("question_match", r.found, r.chunk, FALSE, 0), <<>>, FALSE)

NoAnswer == Answered(NoText, Retrieved("none", FALSE, NoText, FALSE, 0), <<>>, FALSE)

\* a call of rerank_candidates: whether there were candidates, whether a
\* tokenizer or model call raised while scoring, what was returned, and whether
\* a failed load attempt preceded the call
Reranked(candidates, min_score, scoring_raised, r, after_failure) ==
    [op |-> "rerank_candidates", non_empty |-> candidates # <<>>, min_score |-> min_score,
     scoring_raised |-> scoring_raised, best |-> r.best, raised |-> r.raised,
     after_failure |-> after_failure]

NoRerank == [Reranked(<<>>, -1, FALSE, [best |-> NoBest, raised |-> FALSE], FALSE)
             EXCEPT !.op = "none"]

\* a build_index / add_chunks call between two of its statements: pc names the
\* statement executed last, chunks is cleaned_chunks (new_chunks after the
\* filter of add_chunks), calls counts the calls made so far
Mutating(op, pc, chunks, source, calls) ==
    [op |-> op, pc |-> pc, chunks |-> chunks, source |-> source, calls |-> calls]

NoMutation == Mutating("none", "idle", <<>>, "", 0)

\* a _rank_candidates call between two of its statements: seen is what the
\* guard at its head found, hits is the result of index.search, k the position
\* of the loop in hits, ranked the rows appended so far; fault is the
\* exception that ended the call; overlapped / rebuilt tell whether a statement
\* of a mutating call / of build_index ran during the call
Ranking(pc, query, seen, candidate_count, hits, k, ranked, fault, overlapped, rebuilt) ==
    [pc |-> pc, query |-> query, seen |-> seen, candidate_count |-> candidate_count,
     hits |-> hits, k |-> k, ranked |-> ranked, fault |-> fault,
     overlapped |-> overlapped, rebuilt |-> rebuilt]

\* the vector count and the number of chunk texts, and whether a mutating call
\* was between two of its statements
Observed(vectors, texts, in_flight) ==
    [vectors |-> vectors, texts |-> texts, in_flight |-> in_flight]

NoRanking ==
    Ranking("idle", NoText, Observed(0, 0, FALSE), 0, <<>>, 0, <<>>, "none", FALSE, FALSE)

\* the request threads
Callers == 1..MaxCallers

\* a rerank_candidates call of one thread: pc names the statement executed
\* last, outcome what the call returned, fresh whether the artifact was present
\* and no load had failed in this process when the call began
RerankCall(pc, outcome, fresh) == [pc |-> pc, outcome |-> outcome, fresh |-> fresh]

NoRerankCall == RerankCall("idle", "none", FALSE)

Init ==
    /\ index = NoIndex
    /\ chunks_store = <<>>
    /\ chunk_sources = <<>>
    /\ faiss_file = AbsentFile
    /\ chunks_file = AbsentFile
    /\ sources_file = AbsentFile
    /\ metadata_file = AbsentFile
    /\ saves = {}
    /\ legal_qa_file = JsonDumpList(SeedEntries)
    /\ faults = 0
    /\ last = NoCall
    /\ answer = NoAnswer
    /\ _tokenizer = FALSE
    /\ _model = FALSE
    /\ _load_attempted = FALSE
    /\ model_dir = "missing"
    /\ loads = 0
    /\ reranked = NoRerank
    /\ mutation = NoMutation
    /\ ranking = NoRanking
    /\ rerank_calls = [t \in Callers |-> NoRerankCall]

----------------------------------------------------------------------------
(* Calls of the store API *)

\* a save_index() that ran to its end has replaced all four files: the files
\* on disk are those of the store it saved
Completed(saved, mem) == IF saved THEN {mem} ELSE saves

Call_build_index(chunks, persist, source, encodeOk) ==
    LET r == build_index(CurMem, CurDisk, chunks, persist, source, encodeOk)
    IN  /\ SetMem(r.mem)
        /\ SetDisk(r.disk)
        /\ saves' = Completed(persist /\ ~ r.raised /\ SaveValid(r.mem), r.mem)
        /\ UNCHANGED threadVars
        /\ last' = Called("build_index", CleanChunks(chunks), source, r.raised, -1, FALSE)
        /\ answer' = NoAnswer
        /\ UNCHANGED <<legal_qa_file, faults, rerankVars>>

Call_add_chunks(chunks, persist, source, encodeOk) ==
    LET r == add_chunks(CurMem, CurDisk, chunks, persist, source, encodeOk)
    IN  /\ ntotal(r.mem.index) <= MaxVectors
        /\ SetMem(r.mem)
        /\ SetDisk(r.disk)
        /\ saves' = Completed(persist /\ r.count > 0 /\ SaveValid(r.mem), r.mem)
        /\ UNCHANGED threadVars
        /\ last' = Called("add_chunks", CleanChunks(chunks), source, r.raised, r.count,
                          FALSE)
        /\ answer' = NoAnswer
        /\ UNCHANGED <<legal_qa_file, faults, rerankVars>>

Call_save_index ==
    LET r == save_index(CurMem, CurDisk)
    IN  /\ SetDisk(r.disk)
        /\ saves' = Completed(r.ok, CurMem)
        /\ UNCHANGED threadVars
        /\ last' = Called("save_index", <<>>, "", FALSE, -1, r.ok)
        /\ answer' = NoAnswer
        /\ UNCHANGED <<storeVars, legal_qa_file, faults, rerankVars>>

Call_load_index ==
    LET r == load_index(CurMem, CurDisk)
    IN  /\ SetMem(r.mem)
        /\ UNCHANGED threadVars
        /\ last' = Called("load_index", <<>>, "", r.raised, -1, r.ok)
        /\ answer' = NoAnswer
        /\ UNCHANGED <<diskVars, legal_qa_file, faults, rerankVars>>

Call_initialize_vector_db_from_legal_qa(encodeOk) ==
    LET r == initialize_vector_db_from_legal_qa(CurMem, CurDisk, legal_qa_file, encodeOk)
    IN  /\ SetMem(r.mem)
        /\ SetDisk(r.disk)
        /\ saves' = Completed(r.ok /\ ~ load_index(CurMem, CurDisk).ok, r.mem)
        /\ UNCHANGED threadVars
        /\ last' = Called("initialize_vector_db_from_legal_qa", <<>>, "", r.raised, -1,
                          r.ok)
        /\ answer' = NoAnswer
        /\ UNCHANGED <<legal_qa_file, faults, rerankVars>>

\* the process ends and a new one starts: the module globals take their
\* initial values again, the files stay
Restart ==
    /\ SetMem(Mem(NoIndex, <<>>, <<>>))
    /\ UNCHANGED threadVars
    /\ last' = Called("restart", <<>>, "", FALSE, -1, FALSE)
    /\ _tokenizer' = FALSE
    /\ _model' = FALSE
    /\ _load_attempted' = FALSE
    /\ loads' = 0
    /\ answer' = NoAnswer
    /\ reranked' = NoRerank
    /\ UNCHANGED <<diskVars, legal_qa_file, faults, model_dir>>

FileNames == {"faiss", "chunks", "sources", "metadata"}

\* a snapshot file is removed, or overwritten with bytes that do not parse
DamageFile(name, damaged) ==
    /\ faults < MaxFaults
    /\ Exists(CurDisk[name])
    /\ CurDisk[name] # damaged
    /\ SetDisk([CurDisk EXCEPT ![name] = damaged])
    /\ faults' = faults + 1
    /\ UNCHANGED saves
    /\ UNCHANGED threadVars
    /\ last' = Called("damage", <<>>, "", FALSE, -1, FALSE)
    /\ answer' = NoAnswer
    /\ UNCHANGED <<storeVars, legal_qa_file, rerankVars>>

\* the snapshot on disk was written by a release with another schema version
OldSnapshot ==
    /\ faults < MaxFaults
    /\ Parses(metadata_file, "json_object")
    /\ MetadataGet(metadata_file, "schema_version") = INDEX_SCHEMA_VERSION
    /\ metadata_file' = JsonDumpMetadata(OldSchemaVersion)
    /\ faults' = faults + 1
    /\ UNCHANGED threadVars
    /\ last' = Called("damage", <<>>, "", FALSE, -1, FALSE)
    /\ answer' = NoAnswer
    /\ UNCHANGED <<storeVars, faiss_file, chunks_file, sources_file, saves,
                   legal_qa_file, rerankVars>>

\* the sources file on disk is the one of another snapshot, with one tag less
\* or one tag more than there are chunks in the chunks file
StaleSources(longer) ==
    /\ faults < MaxFaults
    /\ Parses(sources_file, "json_array")
    /\ sources_file' = JsonDumpList(IF longer
                                    THEN sources_file.items \o <<SOURCE_UPLOAD>>
                                    ELSE Tail(sources_file.items))
    /\ sources_file'.items # sources_file.items
    /\ faults' = faults + 1
    /\ UNCHANGED threadVars
    /\ last' = Called("damage", <<>>, "", FALSE, -1, FALSE)
    /\ answer' = NoAnswer
    /\ UNCHANGED <<storeVars, faiss_file, chunks_file, metadata_file, saves,
                   legal_qa_file, rerankVars>>

\* the seed file is removed, or replaced by one that is unusable
DamageSeed(damaged) ==
    /\ faults < MaxFaults
    /\ legal_qa_file # damaged
    /\ legal_qa_file' = damaged
    /\ faults' = faults + 1
    /\ UNCHANGED threadVars
    /\ last' = Called("damage", <<>>, "", FALSE, -1, FALSE)
    /\ answer' = NoAnswer
    /\ UNCHANGED <<storeVars, diskVars, rerankVars>>

\* the files left by a save_index() that is cut short after `written` of its
\* four writes (index, chunk texts, sources, metadata, in that order); `torn`
\* is the next file having been opened for writing, and so truncated
InterruptedSave(mem, disk, written, torn) ==
    LET full == save_index(mem, disk).disk
        order == <<"faiss", "chunks", "sources", "metadata">>
    IN  [name \in FileNames |->
            LET pos == CHOOSE k \in 1..4 : order[k] = name
            IN  IF pos <= written THEN full[name]
                ELSE IF pos = written + 1 /\ torn THEN CorruptFile
                ELSE disk[name]]

\* the process dies inside save_index(): some of the files are written, the
\* module globals are gone
Crash_save_index(written, torn) ==
    /\ faults < MaxFaults
    /\ SaveValid(CurMem)
    /\ SetDisk(InterruptedSave(CurMem, CurDisk, written, torn))
    /\ saves' = saves \cup {CurMem}
    /\ SetMem(Mem(NoIndex, <<>>, <<>>))
    /\ faults' = faults + 1
    /\ UNCHANGED threadVars
    /\ last' = Called("crash", <<>>, "", FALSE, -1, FALSE)
    /\ answer' = NoAnswer
    /\ _tokenizer' = FALSE
    /\ _model' = FALSE
    /\ _load_attempted' = FALSE
    /\ loads' = 0
    /\ reranked' = NoRerank
    /\ UNCHANGED <<legal_qa_file, model_dir>>

----------------------------------------------------------------------------
(* Calls of retrieval and of the reranker *)

\* what a call of retrieve_clause leaves behind: r is what the tiers return,
\* ranked the candidate list, raises whether embedder.encode([query]) raises
\* once the ranker gets to it
AnswerTo(query, r, ranked, raises) ==
    IF r.tier \in {"legal_reference", "exact_question"}
    THEN Answered(query, r, <<>>, FALSE)
    ELSE IF raises
    THEN Answered(query, Retrieved("raised", FALSE, NoText, FALSE, 0), <<>>, TRUE)
    ELSE Answered(query, r, ranked, FALSE)

\* retrieve_clause(query): dist gives the distance of the query embedding to
\* each embedded text; embedder.encode([query]) raises when ~encodeOk
Call_retrieve_clause(query, dist, encodeOk) ==
    /\ answer' = AnswerTo(query, retrieve_clause(query, CurMem, dist),
                          _rank_candidates(query, CurMem, dist),
                          ~ encodeOk /\ RankerEncodes(CurMem))
    /\ UNCHANGED threadVars
    /\ last' = Called("retrieve_clause", <<>>, "", answer'.raised, -1, FALSE)
    /\ UNCHANGED <<storeVars, diskVars, legal_qa_file, faults, rerankVars>>

\* _find_exact_question_match(query) called on its own
Call_find_exact_question_match(query) ==
    /\ answer' = Matched(query, _find_exact_question_match(query, CurMem))
    /\ UNCHANGED threadVars
    /\ last' = Called("_find_exact_question_match", <<>>, "", FALSE, -1, FALSE)
    /\ UNCHANGED <<storeVars, diskVars, legal_qa_file, faults, rerankVars>>

CurReranker == Reranker(_tokenizer, _model, _load_attempted, loads)

Call_rerank_candidates(candidates, min_score, outcomes) ==
    LET r == rerank_candidates(CurReranker, model_dir, candidates, min_score, outcomes)
        scoring_raised ==
            /\ r.rr._tokenizer /\ r.rr._model
            /\ \E k \in 1..Len(candidates) :
                  candidates[k].clause # NoText /\ outcomes[k] = RAISES
    IN  /\ _tokenizer' = r.rr._tokenizer
        /\ _model' = r.rr._model
        /\ _load_attempted' = r.rr._load_attempted
        /\ loads' = r.rr.loads
        /\ reranked' = Reranked(candidates, min_score, scoring_raised, r,
                                _load_attempted /\ ~ (_tokenizer /\ _model))
        /\ UNCHANGED threadVars
        /\ last' = Called("rerank_candidates", <<>>, "", r.raised, -1, FALSE)
        /\ answer' = NoAnswer
        /\ UNCHANGED <<storeVars, diskVars, legal_qa_file, faults, model_dir>>

\* the model artifact at DEFAULT_MODEL_DIR is installed, removed or damaged
\* while the process runs
SetModelDir(dir) ==
    /\ model_dir # dir
    /\ model_dir' = dir
    /\ UNCHANGED threadVars
    /\ last' = Called("model_dir", <<>>, "", FALSE, -1, FALSE)
    /\ answer' = NoAnswer
    /\ UNCHANGED <<storeVars, diskVars, legal_qa_file, faults, _tokenizer, _model,
                   _load_attempted, loads, reranked>>

----------------------------------------------------------------------------
(* Inputs of retrieval and of the reranker *)

\* the calls that fill the store before retrieval: knowledge-base entries and
\* an uploaded clause
RetrievalInputs ==
    {[chunks |-> <<TextLiabilityQA>>, source |-> SOURCE_LEGAL_QA],
     [chunks |-> <<TextSectionQA>>, source |-> SOURCE_LEGAL_QA],
     [chunks |-> <<TextLiabilityQA, TextSectionQA>>, source |-> SOURCE_LEGAL_QA],
     [chunks |-> <<TextSampleAct>>, source |-> SOURCE_UPLOAD],
     [chunks |-> <<TextSampleAct>>, source |-> SOURCE_UNKNOWN]}

\* distances in thousandths: confidence 0.50, 0.296, 0.28 and 0.238
Distances == {1000, 2378, 2571, 3200}

\* candidates as main.py builds them; only the clause is read by the reranker
RerankCandidates ==
    {[clause |-> NoText, source |-> SOURCE_UNKNOWN],
     [clause |-> TextNoPets, source |-> SOURCE_UPLOAD],
     [clause |-> TextWrapped, source |-> SOURCE_LEGAL_QA]}

CandidateLists == SeqsUpTo(RerankCandidates, MaxCandidates)

\* the probability of the class "relevant" in hundredths
Scores == {20, 50, 80}
MinScores == {-1, 70}

----------------------------------------------------------------------------
(* Specifications *)

\* the in-memory store under rebuild and add, with the embedder free to raise
NextStore ==
    \/ \E chunks \in ChunkLists, encodeOk \in BOOLEAN :
          Call_build_index(chunks, FALSE, SOURCE_LEGAL_QA, encodeOk)
    \/ \E chunks \in ChunkLists, encodeOk \in BOOLEAN :
          Call_add_chunks(chunks, FALSE, SOURCE_UPLOAD, encodeOk)

Spec == Init /\ [][NextStore]_vars

\* the store when add_chunks is the only call made, the first one building the
\* index
NextAdd ==
    \E chunks \in ChunkLists, source \in {SOURCE_LEGAL_QA, SOURCE_UPLOAD}, encodeOk \in BOOLEAN :
        Call_add_chunks(chunks, FALSE, source, encodeOk)

SpecAdd == Init /\ [][NextAdd]_vars

\* the store with its snapshot files: the calls made by the API layer (rebuild
\* of the knowledge base, add of an upload), save, load, bootstrap, restarts
\* and damaged files
NextPersist ==
    \/ \E chunks \in KnowledgeBaseLists, persist \in BOOLEAN :
          Call_build_index(chunks, persist, SOURCE_LEGAL_QA, TRUE)
    \/ \E chunks \in UploadLists, persist \in BOOLEAN :
          Call_add_chunks(chunks, persist, SOURCE_UPLOAD, TRUE)
    \/ Call_save_index
    \/ Call_load_index
    \/ \E encodeOk \in BOOLEAN : Call_initialize_vector_db_from_legal_qa(encodeOk)
    \/ Restart
    \/ \E name \in FileNames, damaged \in {AbsentFile, CorruptFile} :
          DamageFile(name, damaged)
    \/ OldSnapshot
    \/ \E longer \in BOOLEAN : StaleSources(longer)
    \/ \E damaged \in BadSeedFiles : DamageSeed(damaged)

SpecPersist == Init /\ [][NextPersist]_vars

\* saves that are cut short by the end of the process, over the snapshots of
\* earlier saves
NextCrash ==
    \/ \E chunks \in CrashLists : Call_build_index(chunks, FALSE, SOURCE_LEGAL_QA, TRUE)
    \/ \E chunks \in CrashLists : Call_add_chunks(chunks, FALSE, SOURCE_UPLOAD, TRUE)
    \/ Call_save_index
    \/ Call_load_index
    \/ Restart
    \/ \E written \in 1..3, torn \in BOOLEAN : Crash_save_index(written, torn)

SpecCrash == Init /\ [][NextCrash]_vars

\* retrieval over a store filled by rebuild and add
NextRetrieve ==
    \/ \E input \in RetrievalInputs :
          Call_build_index(input.chunks, FALSE, input.source, TRUE)
    \/ \E input \in RetrievalInputs :
          Call_add_chunks(input.chunks, FALSE, input.source, TRUE)
    \/ \E query \in Queries, dist \in [CorpusTexts -> Distances], encodeOk \in BOOLEAN :
          Call_retrieve_clause(query, dist, encodeOk)

SpecRetrieve == Init /\ [][NextRetrieve]_vars

\* knowledge-base lists of one or two entries for the question matcher
MatchInputs ==
    LET texts == {TextLiabilityQA, TextSampleAct} \cup MatchTexts
    IN  {<<t>> : t \in texts} \cup {<<t, u>> : t \in texts, u \in texts}

\* the question matcher over stores of the knowledge base
NextMatch ==
    \/ \E chunks \in MatchInputs : Call_build_index(chunks, FALSE, SOURCE_LEGAL_QA, TRUE)
    \/ \E chunks \in MatchInputs : Call_add_chunks(chunks, FALSE, SOURCE_LEGAL_QA, TRUE)
    \/ \E query \in Queries : Call_find_exact_question_match(query)

SpecMatch == Init /\ [][NextMatch]_vars

\* the reranker within one process, the model artifact coming and going
NextRerank ==
    \/ \E candidates \in CandidateLists, min_score \in MinScores :
          \E outcomes \in [1..Len(candidates) -> Scores \cup {RAISES}] :
             Call_rerank_candidates(candidates, min_score, outcomes)
    \/ \E dir \in ModelDirs : SetModelDir(dir)

SpecRerank == Init /\ [][NextRerank]_vars


----------------------------------------------------------------------------
(* relevance_reranker.py: rerank_candidates called by request threads at the
   same time, one statement of _load_model at a time.  /ask is a synchronous
   endpoint (main.py), so the server runs each request on a thread of its
   pool and the globals _tokenizer, _model and _load_attempted are shared. *)

loadVars == <<_tokenizer, _model, _load_attempted, loads>>

\* another thread is between `_load_attempted = True` and the end of a load
\* that began on a fresh process
LoadInProgress(t) ==
    \E u \in Callers \ {t} :
        /\ rerank_calls[u].pc \in {"attempted", "dir_exists", "tokenizer"}
        /\ rerank_calls[u].fresh

SetRerankCall(t, pc, outcome) ==
    rerank_calls' = [rerank_calls EXCEPT ![t] = RerankCall(pc, outcome, @.fresh)]

othersUnchanged == <<storeVars, diskVars, legal_qa_file, faults, last, answer, model_dir,
                     reranked, mutation, ranking>>

\* thread t calls rerank_candidates(query, candidates) with a non-empty list
Rerank_call(t) ==
    /\ rerank_calls[t].pc \in {"idle", "returned"}
    /\ rerank_calls' =
          [rerank_calls EXCEPT ![t] =
              RerankCall("called", "none",
                         /\ model_dir = "ok"
                         /\ \/ _tokenizer /\ _model
                            \/ ~ _load_attempted
                            \/ LoadInProgress(t))]
    /\ UNCHANGED <<loadVars, othersUnchanged>>

\* if _tokenizer is not None and _model is not None: return True
Load_test_loaded(t) ==
    /\ rerank_calls[t].pc = "called"
    /\ SetRerankCall(t, IF _tokenizer /\ _model THEN "loaded" ELSE "not_loaded", "none")
    /\ UNCHANGED <<loadVars, othersUnchanged>>

\* if _load_attempted: return False, and rerank_candidates returns None
Load_test_attempted(t) ==
    /\ rerank_calls[t].pc = "not_loaded"
    /\ IF _load_attempted
       THEN SetRerankCall(t, "returned", "unavailable")
       ELSE SetRerankCall(t, "attempting", "none")
    /\ UNCHANGED <<loadVars, othersUnchanged>>

\* _load_attempted = True
Load_set_attempted(t) ==
    /\ rerank_calls[t].pc = "attempting"
    /\ _load_attempted' = TRUE
    /\ SetRerankCall(t, "attempted", "none")
    /\ UNCHANGED <<_tokenizer, _model, loads, othersUnchanged>>

\* if not target_dir.exists(): return False
Load_test_dir(t) ==
    /\ rerank_calls[t].pc = "attempted"
    /\ IF model_dir = "missing"
       THEN SetRerankCall(t, "returned", "unavailable")
       ELSE SetRerankCall(t, "dir_exists", "none")
    /\ UNCHANGED <<loadVars, othersUnchanged>>

\* _tokenizer = AutoTokenizer.from_pretrained(...), or the except clause
Load_tokenizer(t) ==
    /\ rerank_calls[t].pc = "dir_exists"
    /\ loads' = IF loads < MaxLoads THEN loads + 1 ELSE loads
    /\ IF model_dir = "corrupt"
       THEN /\ _tokenizer' = FALSE
            /\ _model' = FALSE
            /\ SetRerankCall(t, "returned", "unavailable")
       ELSE /\ _tokenizer' = TRUE
            /\ UNCHANGED _model
            /\ SetRerankCall(t, "tokenizer", "none")
    /\ UNCHANGED <<_load_attempted, othersUnchanged>>

\* _model = AutoModelForSequenceClassification.from_pretrained(...).to(_device)
\* and _model.eval(), or the except clause
Load_model(t) ==
    /\ rerank_calls[t].pc = "tokenizer"
    /\ IF model_dir # "ok"
       THEN /\ _tokenizer' = FALSE
            /\ _model' = FALSE
            /\ SetRerankCall(t, "returned", "unavailable")
       ELSE /\ _model' = TRUE
            /\ UNCHANGED _tokenizer
            /\ SetRerankCall(t, "loaded", "none")
    /\ UNCHANGED <<_load_attempted, loads, othersUnchanged>>

\* the scoring loop of rerank_candidates and its return; calling a tokenizer
\* or model that another thread's except clause has set to None raises
Rerank_score(t) ==
    /\ rerank_calls[t].pc = "loaded"
    /\ SetRerankCall(t, "returned", IF _tokenizer /\ _model THEN "scored" ELSE "raised")
    /\ UNCHANGED <<loadVars, othersUnchanged>>

\* the artifact is installed, removed or damaged while no call is in progress
SetModelDirBetweenCalls(dir) ==
    /\ \A t \in Callers : rerank_calls[t].pc \in {"idle", "returned"}
    /\ model_dir # dir
    /\ model_dir' = dir
    /\ UNCHANGED <<storeVars, diskVars, legal_qa_file, faults, last, answer, loadVars,
                   reranked, threadVars>>

NextLoadRace ==
    \/ \E t \in Callers : Rerank_call(t)
    \/ \E t \in Callers : Load_test_loaded(t)
    \/ \E t \in Callers : Load_test_attempted(t)
    \/ \E t \in Callers : Load_set_attempted(t)
    \/ \E t \in Callers : Load_test_dir(t)
    \/ \E t \in Callers : Load_tokenizer(t)
    \/ \E t \in Callers : Load_model(t)
    \/ \E t \in Callers : Rerank_score(t)
    \/ \E dir \in ModelDirs : SetModelDirBetweenCalls(dir)

SpecLoadRace == Init /\ [][NextLoadRace]_vars

----------------------------------------------------------------------------
(* rag_core.py: build_index / add_chunks of one thread and _rank_candidates of
   another, one statement at a time.  /upload runs on the event loop and /ask
   on a pool thread (main.py), and the store takes no lock. *)

raceUnchanged == <<diskVars, legal_qa_file, last, answer, rerankVars, rerank_calls>>

Idle == mutation.pc = "idle"
\* the mutating call has returned or raised
Returned == Mutating("none", "idle", <<>>, "", mutation.calls)
InBuild == mutation.pc \in {"build:start", "build:chunks_store", "build:chunk_sources",
                            "build:encoded", "build:index"}
RankInProgress == ranking.pc \in {"guarded", "counted", "searched", "checked"}

\* the rank call in progress, if any, has run across a statement of a mutating
\* call
Disturbed(build) ==
    IF RankInProgress
    THEN [ranking EXCEPT !.overlapped = TRUE, !.rebuilt = @ \/ build]
    ELSE ranking

\* build_index(chunks, source=source) is entered: cleaned_chunks
Build_call(chunks, source) ==
    /\ Idle
    /\ mutation.calls < MaxMutations
    /\ mutation' = Mutating("build_index", "build:start", CleanChunks(chunks), source,
                            mutation.calls + 1)
    /\ ranking' = Disturbed(TRUE)
    /\ UNCHANGED <<storeVars, raceUnchanged, faults>>

\* chunks_store = cleaned_chunks, or chunks_store = [] for an empty list
Build_chunks_store ==
    /\ mutation.pc = "build:start"
    /\ chunks_store' = mutation.chunks
    /\ mutation' = [mutation EXCEPT !.pc = "build:chunks_store"]
    /\ ranking' = Disturbed(TRUE)
    /\ UNCHANGED <<index, chunk_sources, raceUnchanged, faults>>

\* chunk_sources = [source] * len(cleaned_chunks), or chunk_sources = []
Build_chunk_sources ==
    /\ mutation.pc = "build:chunks_store"
    /\ chunk_sources' = Repeat(mutation.source, Len(mutation.chunks))
    /\ mutation' = [mutation EXCEPT !.pc = "build:chunk_sources"]
    /\ ranking' = Disturbed(TRUE)
    /\ UNCHANGED <<index, chunks_store, raceUnchanged, faults>>

\* index = None and return, for an empty list
Build_index_none ==
    /\ mutation.pc = "build:chunk_sources"
    /\ mutation.chunks = <<>>
    /\ index' = NoIndex
    /\ mutation' = Returned
    /\ ranking' = Disturbed(TRUE)
    /\ UNCHANGED <<chunks_store, chunk_sources, raceUnchanged, faults>>

\* embedder.encode(cleaned_chunks), which ends the call when it raises
Build_encode(encodeOk) ==
    /\ mutation.pc = "build:chunk_sources"
    /\ mutation.chunks # <<>>
    /\ encodeOk \/ faults < MaxFaults
    /\ mutation' = IF encodeOk THEN [mutation EXCEPT !.pc = "build:encoded"] ELSE Returned
    /\ faults' = IF encodeOk THEN faults ELSE faults + 1
    /\ ranking' = Disturbed(TRUE)
    /\ UNCHANGED <<storeVars, raceUnchanged>>

\* index = faiss.IndexFlatL2(dimension)
Build_index_new ==
    /\ mutation.pc = "build:encoded"
    /\ index' = IndexFlatL2(<<>>)
    /\ mutation' = [mutation EXCEPT !.pc = "build:index"]
    /\ ranking' = Disturbed(TRUE)
    /\ UNCHANGED <<chunks_store, chunk_sources, raceUnchanged, faults>>

\* index.add(embeddings) and return
Build_index_add ==
    /\ mutation.pc = "build:index"
    /\ index' = IndexFlatL2(Encode(mutation.chunks))
    /\ mutation' = Returned
    /\ ranking' = Disturbed(TRUE)
    /\ UNCHANGED <<chunks_store, chunk_sources, raceUnchanged, faults>>

\* add_chunks(chunks, source=source) is entered: cleaned_chunks, the test of
\* the index, new_chunks and their embeddings; the call goes on in build_index
\* when there is no index to add to
Add_call(chunks, source) ==
    /\ Idle
    /\ mutation.calls < MaxMutations
    /\ CleanChunks(chunks) # <<>>
    /\ IF ~ index.exists \/ ntotal(index) = 0 \/ chunks_store = <<>>
       THEN mutation' = Mutating("add_chunks", "build:start", CleanChunks(chunks), source,
                               mutation.calls + 1)
       ELSE /\ NewChunks(CleanChunks(chunks), chunks_store) # <<>>
            /\ ntotal(index) + Len(NewChunks(CleanChunks(chunks), chunks_store)) <= MaxVectors
            /\ mutation' = Mutating("add_chunks", "add:encoded",
                                    NewChunks(CleanChunks(chunks), chunks_store), source,
                                    mutation.calls + 1)
    /\ ranking' = Disturbed(mutation'.pc = "build:start")
    /\ UNCHANGED <<storeVars, raceUnchanged, faults>>

\* index.add(embeddings)
Add_index_add ==
    /\ mutation.pc = "add:encoded"
    /\ index' = IndexFlatL2(index.vectors \o Encode(mutation.chunks))
    /\ mutation' = [mutation EXCEPT !.pc = "add:index"]
    /\ ranking' = Disturbed(FALSE)
    /\ UNCHANGED <<chunks_store, chunk_sources, raceUnchanged, faults>>

\* chunks_store.extend(new_chunks)
Add_chunks_store_extend ==
    /\ mutation.pc = "add:index"
    /\ chunks_store' = chunks_store \o mutation.chunks
    /\ mutation' = [mutation EXCEPT !.pc = "add:chunks_store"]
    /\ ranking' = Disturbed(FALSE)
    /\ UNCHANGED <<index, chunk_sources, raceUnchanged, faults>>

\* chunk_sources.extend([source] * len(new_chunks)) and return
Add_chunk_sources_extend ==
    /\ mutation.pc = "add:chunks_store"
    /\ chunk_sources' = chunk_sources \o Repeat(mutation.source, Len(mutation.chunks))
    /\ mutation' = Returned
    /\ ranking' = Disturbed(FALSE)
    /\ UNCHANGED <<index, chunks_store, raceUnchanged, faults>>

\* a guard that lets every position through
PositionValidAlways(idx, store) == TRUE

\* not (chunk_idx < 0 or chunk_idx >= len(chunks_store)), positions from 1
PositionValid(idx, store) == ~ (idx < 1 \/ idx > Len(store))

\* index.search(q_embedding, k): FAISS fills the places for which the index has
\* no vector with the label -1, position 0 here
SearchPadded(ix, dist, k) ==
    IF k <= ntotal(ix) THEN Search(ix, dist, k)
    ELSE Search(ix, dist, ntotal(ix))
         \o Repeat([distance |-> 0, idx |-> 0], k - ntotal(ix))

\* _rank_candidates(query) is entered: the guard at its head
Rank_call(query) ==
    /\ ~ RankInProgress
    /\ ranking' =
          Ranking(IF RankerEncodes(CurMem) THEN "guarded" ELSE "returned", query,
                  Observed(ntotal(index), Len(chunks_store), ~ Idle),
                  0, <<>>, 0, <<>>, "none", ~ Idle, InBuild)
    /\ UNCHANGED <<storeVars, mutation, raceUnchanged, faults>>

\* the query embedding and candidate_count = min(MAX_RETRIEVAL_CANDIDATES,
\* index.ntotal); index.ntotal raises AttributeError when index is None by now
Rank_count ==
    /\ ranking.pc = "guarded"
    /\ ranking' =
          IF ~ index.exists
          THEN [ranking EXCEPT !.pc = "raised", !.fault = "AttributeError"]
          ELSE [ranking EXCEPT !.pc = "counted",
                               !.candidate_count =
                                   IF MAX_RETRIEVAL_CANDIDATES < ntotal(index)
                                   THEN MAX_RETRIEVAL_CANDIDATES ELSE ntotal(index)]
    /\ UNCHANGED <<storeVars, mutation, raceUnchanged, faults>>

\* index.search(q_embedding, k=candidate_count); the distances are whatever
\* the embedder and the index make of the query
Rank_search(dist) ==
    /\ ranking.pc = "counted"
    /\ ranking' =
          IF ~ index.exists
          THEN [ranking EXCEPT !.pc = "raised", !.fault = "AttributeError"]
          ELSE [ranking EXCEPT !.pc = "searched", !.k = 1,
                               !.hits = SearchPadded(index, dist, ranking.candidate_count)]
    /\ UNCHANGED <<storeVars, mutation, raceUnchanged, faults>>

\* the head of the loop body: if chunk_idx < 0 or chunk_idx >= len(chunks_store)
Rank_check ==
    /\ ranking.pc = "searched"
    /\ ranking.k <= Len(ranking.hits)
    /\ ranking' =
          IF PositionValid(ranking.hits[ranking.k].idx, chunks_store)
          THEN [ranking EXCEPT !.pc = "checked"]
          ELSE [ranking EXCEPT !.k = @ + 1]
    /\ UNCHANGED <<storeVars, mutation, raceUnchanged, faults>>

\* the row appended for the hit `hit`; chunks_store[chunk_idx] raises
\* IndexError when the list is shorter by now
RankRead(hit) ==
    IF hit.idx < 1 \/ hit.idx > Len(chunks_store)
    THEN [ranking EXCEPT !.pc = "raised", !.fault = "IndexError"]
    ELSE [ranking EXCEPT !.pc = "searched", !.k = @ + 1,
                         !.ranked = Append(@, Candidate(ranking.query, CurMem, hit))]

\* the rest of the loop body: the text and the source are read and the row is
\* appended
Rank_read ==
    /\ ranking.pc = "checked"
    /\ ranking' = RankRead(ranking.hits[ranking.k])
    /\ UNCHANGED <<storeVars, mutation, raceUnchanged, faults>>

\* ranked.sort(...) and return ranked
Rank_return ==
    /\ ranking.pc = "searched"
    /\ ranking.k > Len(ranking.hits)
    /\ ranking' = [ranking EXCEPT !.pc = "returned", !.ranked = SortByScore(@)]
    /\ UNCHANGED <<storeVars, mutation, raceUnchanged, faults>>

\* the lists handed to build_index and to add_chunks, the query and the
\* distances of its embedding
RaceBuildLists == {<<>>, <<TextLiabilityQA>>, <<TextLiabilityQA, TextSectionQA>>}
RaceAddLists == {<<TextSampleAct>>, <<TextSectionQA>>}
RaceQueries == {QueryExact}
RaceDistances ==
    {[t \in CorpusTexts |-> 1000],
     [t \in CorpusTexts |-> IF t = TextLiabilityQA THEN 3200
                            ELSE IF t = TextSectionQA THEN 2378 ELSE 1000]}

NextRace ==
    \/ \E chunks \in RaceBuildLists : Build_call(chunks, SOURCE_LEGAL_QA)
    \/ Build_chunks_store
    \/ Build_chunk_sources
    \/ Build_index_none
    \/ \E encodeOk \in BOOLEAN : Build_encode(encodeOk)
    \/ Build_index_new
    \/ Build_index_add
    \/ \E chunks \in RaceAddLists : Add_call(chunks, SOURCE_UPLOAD)
    \/ Add_index_add
    \/ Add_chunks_store_extend
    \/ Add_chunk_sources_extend
    \/ \E query \in RaceQueries : Rank_call(query)
    \/ Rank_count
    \/ \E dist \in RaceDistances : Rank_search(dist)
    \/ Rank_check
    \/ Rank_read
    \/ Rank_return

SpecRace == Init /\ [][NextRace]_vars

----------------------------------------------------------------------------
(* Properties *)

\* the number of positions of `store` that hold `chunk`
Occurrences(chunk, store) == Cardinality({i \in 1..Len(store) : store[i] = chunk})

\* C1: after any sequence of build_index and add_chunks calls from the empty
\* store, the number of chunk texts, the number of source tags and the number
\* of vectors of the index (0 for an absent index) are equal.
C1_LengthsEqual ==
    /\ Len(chunk_sources) = Len(chunks_store)
    /\ ntotal(index) = Len(chunks_store)

\* add_chunks has returned normally for a list that cleans to the one chunk x
AddedOne == last.op = "add_chunks" /\ Len(last.chunks) = 1 /\ ~ last.raised

\* the call add_chunks([x]) made again in the current state
SecondAdd(encodeOk) ==
    add_chunks(CurMem, CurDisk, last.chunks, FALSE, last.source, encodeOk)

\* C2 (as amended): when add([x]) has returned normally, x is in the store and
\* a second add([x]) returns 0 and changes none of the three stores; x is
\* stored exactly once when the first call returned 1, and as often as before
\* the first call when that call returned 0.
C2_SecondAddChangesNothing ==
    AddedOne =>
        \A encodeOk \in BOOLEAN :
            /\ InStore(last.chunks[1], chunks_store)
            /\ ~ SecondAdd(encodeOk).raised
            /\ SecondAdd(encodeOk).count = 0
            /\ SecondAdd(encodeOk).mem = CurMem
            /\ last.count = 1 =>
                  Occurrences(last.chunks[1], SecondAdd(encodeOk).mem.chunks_store) = 1

\* add([x]) has returned 0 on a store that an earlier add([x]) created: x is
\* stored once, with the source tag of add
C2_Witness ==
    /\ last.op = "add_chunks" /\ last.count = 0
    /\ last.chunks = <<TextNoPets>>
    /\ chunks_store = <<TextNoPets>>
    /\ chunk_sources = <<SOURCE_UPLOAD>>
    /\ ntotal(index) = 1

\* C2 as written, for calls that return: after add([x]) twice in a row x is
\* stored exactly once, whatever the store held before.
C2_StoredExactlyOnce ==
    AddedOne =>
        /\ SecondAdd(TRUE).count = 0
        /\ SecondAdd(TRUE).mem = CurMem
        /\ Occurrences(last.chunks[1], SecondAdd(TRUE).mem.chunks_store) = 1

FreshMem == Mem(NoIndex, <<>>, <<>>)

\* C3: when build_index has returned for a list with at least one non-blank
\* entry, save_index followed by load_index into a fresh store succeeds and
\* yields the chunk texts, the source tags and the vector count of the store
\* that was saved, whatever the snapshot directory held before.
C3_SaveLoadRoundTrip ==
    (last.op = "build_index" /\ last.chunks # <<>> /\ ~ last.raised) =>
        LET saved == save_index(CurMem, CurDisk)
            loaded == load_index(FreshMem, saved.disk)
        IN  /\ saved.ok
            /\ loaded.ok /\ ~ loaded.raised
            /\ loaded.mem.chunks_store = chunks_store
            /\ loaded.mem.chunk_sources = chunk_sources
            /\ ntotal(loaded.mem.index) = ntotal(index)

\* a rebuild of two chunks has returned while the snapshot directory holds a
\* sources file that does not parse
C3_Witness ==
    /\ last.op = "build_index" /\ ~ last.raised
    /\ chunks_store = <<TextWrapped, TextNoPets>>
    /\ sources_file = CorruptFile
    /\ load_index(FreshMem, save_index(CurMem, CurDisk).disk).ok

\* the snapshot's metadata is missing, or carries another schema version
SchemaGuardApplies ==
    \/ ~ Exists(metadata_file)
    \/ /\ Parses(metadata_file, "json_object")
       /\ MetadataGet(metadata_file, "schema_version") # INDEX_SCHEMA_VERSION

\* C4: load_index returns false and changes none of index, chunks_store and
\* chunk_sources when the metadata is missing or its schema version differs
\* from INDEX_SCHEMA_VERSION.
C4_SchemaGuard ==
    [][(last'.op = "load_index" /\ SchemaGuardApplies) =>
          /\ ~ last'.ok
          /\ ~ last'.raised
          /\ UNCHANGED storeVars]_vars

\* load_index has returned false on a non-empty store, the index and chunk
\* files being valid and the metadata carrying the older schema version
C4_Witness ==
    /\ last.op = "load_index" /\ ~ last.ok /\ ~ last.raised
    /\ chunks_store # <<>>
    /\ Parses(faiss_file, "faiss_flat_l2")
    /\ Parses(chunks_file, "json_array")
    /\ Parses(metadata_file, "json_object")
    /\ MetadataGet(metadata_file, "schema_version") = OldSchemaVersion

\* the last call was retrieve_clause and it returned
HasAnswer == answer.tier \notin {"none", "raised"}

SemanticTiers == {"no_candidates", "below_threshold", "merged", "semantic"}

\* C5: the tiers are tried in the order legal reference, exact question,
\* semantic: when the legal-reference matcher finds a chunk, retrieve_clause
\* returns that chunk with confidence 0.95; the exact-question tier (0.99)
\* answers only when the legal-reference matcher found nothing, and the
\* semantic tier only when both matchers found nothing.
C5_TierOrder ==
    HasAnswer =>
        LET legal_ref_match == _find_legal_reference_match(answer.query, CurMem)
            exact_match == _find_exact_question_match(answer.query, CurMem)
        IN  /\ legal_ref_match.found =>
                 /\ answer.tier = "legal_reference"
                 /\ answer.has_clause /\ answer.clause = legal_ref_match.clause
                 /\ answer.has_confidence /\ answer.confidence = 95
            /\ (~ legal_ref_match.found /\ exact_match.found) =>
                 /\ answer.tier = "exact_question"
                 /\ answer.has_clause /\ answer.clause = exact_match.chunk
                 /\ answer.has_confidence /\ answer.confidence = 99
            /\ answer.tier = "exact_question" => ~ legal_ref_match.found
            /\ answer.tier \in SemanticTiers =>
                 ~ legal_ref_match.found /\ ~ exact_match.found

\* the legal-reference tier has answered a query for which the exact-question
\* matcher finds another chunk
C5_Witness ==
    /\ answer.tier = "legal_reference"
    /\ answer.confidence = 95
    /\ answer.clause = TextSampleAct
    /\ _find_exact_question_match(answer.query, CurMem).found
    /\ _find_exact_question_match(answer.query, CurMem).chunk = TextSectionQA

Wrapped(query, store) ==
    {k \in 1..Len(store) : OfChunk(query, store[k]).has_question}

\* ratio r is at least 0.85
AtLeast85(r) == 100 * r.num >= 85 * r.den

\* C7: when no stored wrapped question equals the normalized query, the
\* exact-question matcher returns the chunk with the highest ratio if and only
\* if that ratio is at least 0.85, exactly 0.85 included, and retrieve_clause
\* then returns that chunk with confidence 0.99; when every ratio is below 0.85
\* retrieve_clause goes on to the semantic tier.
C7_FuzzyAtLeast85 ==
    LET store == chunks_store
        query == answer.query
        wrapped == Wrapped(query, store)
        score(k) == OfChunk(query, store[k]).score
        highest == {k \in wrapped : \A j \in wrapped : ~ RatioGreater(score(j), score(k))}
    IN  (/\ HasAnswer
         /\ OfQuery(query).normalized_query # NoText
         /\ ~ _find_legal_reference_match(query, CurMem).found
         /\ \A k \in wrapped : ~ OfChunk(query, store[k]).exact) =>
            IF \E k \in highest : AtLeast85(score(k))
            THEN /\ answer.tier = "exact_question"
                 /\ \E k \in highest : answer.clause = store[k]
                 /\ answer.confidence = 99
            ELSE answer.tier \in SemanticTiers

LoadFailed == _load_attempted /\ ~ (_tokenizer /\ _model)

\* C8: when the first rerank_candidates call finds the model artifact missing or
\* unloadable, the load has failed for good: every later call returns None
\* without raising and without another load attempt, also when the artifact has
\* become available.
C8_LoadFailureIsTerminal ==
    [][/\ (/\ ~ _load_attempted
           /\ last'.op = "rerank_candidates" /\ reranked'.non_empty
           /\ model_dir # "ok") => LoadFailed'
       /\ LoadFailed =>
            /\ LoadFailed'
            /\ loads' = loads
            /\ last'.op = "rerank_candidates" =>
                  ~ reranked'.best.found /\ ~ reranked'.raised]_vars

\* a call with candidates has returned None after a failed load attempt while
\* the complete artifact is in place
C8_Witness ==
    /\ last.op = "rerank_candidates"
    /\ reranked.non_empty /\ reranked.after_failure
    /\ ~ reranked.best.found /\ ~ reranked.raised
    /\ model_dir = "ok"
    /\ LoadFailed
    /\ loads = 1

\* C9: when the tokenizer or the model raises while rerank_candidates scores a
\* candidate, the model being loaded, rerank_candidates returns None and no
\* exception reaches its caller.
C9_ScoringFailureIsCaught ==
    (last.op = "rerank_candidates" /\ reranked.scoring_raised) =>
        ~ reranked.raised /\ ~ reranked.best.found

\* C10: a snapshot file that exists but cannot be read or parsed makes
\* load_index return false, and initialize_vector_db_from_legal_qa go on to the
\* seed; no exception reaches the caller of either.
C10_LoadNeverRaises ==
    last.op \in {"load_index", "initialize_vector_db_from_legal_qa"} => ~ last.raised

----------------------------------------------------------------------------
(* Persistence: validation and interrupted saves *)

\* the index holds vectors, and there are as many of them as chunk texts and
\* as source tags
ThreeEqualNonZero(mem) ==
    /\ mem.index.exists
    /\ ntotal(mem.index) > 0
    /\ ntotal(mem.index) = Len(mem.chunks_store)
    /\ Len(mem.chunk_sources) = Len(mem.chunks_store)

\* C11: save_index returns false and writes no file unless the vector count,
\* the number of chunk texts and the number of source tags are all equal and
\* non-zero; it writes the four snapshot files and returns true only then.
C11_SaveValidates ==
    LET r == save_index(CurMem, CurDisk)
    IN  /\ r.ok <=> ThreeEqualNonZero(CurMem)
        /\ ~ r.ok => r.disk = CurDisk
        /\ r.ok => r.disk = Disk(FaissWrite(index), JsonDumpList(chunks_store),
                                 JsonDumpList(chunk_sources),
                                 JsonDumpMetadata(INDEX_SCHEMA_VERSION))

\* C12: after a save_index that was cut short over an earlier snapshot, a
\* load_index that returns true has installed an index, chunk texts and source
\* tags that one and the same save wrote; it never installs parts of two.
C12_NoMixedSnapshot ==
    (last.op = "load_index" /\ last.ok) => CurMem \in saves

----------------------------------------------------------------------------
(* Retrieval: the dual-source merge *)

\* the semantic tier ran, its best candidate passed the confidence gate, and
\* the best-ranked knowledge-base candidate has another text than the best
MergeCase ==
    /\ HasAnswer /\ answer.tier \in SemanticTiers
    /\ answer.ranked > 0
    /\ ~ ConfidenceBelow(answer.best_distance, ConfidenceThreshold(answer.best_lexical_hits))
    /\ answer.kb.distance # -1
    /\ answer.kb.clause # answer.best_clause

\* retrieve_clause returned the two-heading context with the larger of the
\* two confidences, rounded
ReturnedMerged ==
    /\ answer.has_clause
    /\ answer.clause = MergedContext(answer.kb.clause, answer.best_clause, answer.best_source)
    /\ answer.has_confidence
    /\ answer.confidence =
          RoundedConfidence(IF answer.kb.distance < answer.best_distance
                            THEN answer.kb.distance ELSE answer.best_distance)

\* retrieve_clause returned the best clause alone with its rounded confidence
ReturnedBestAlone ==
    /\ answer.has_clause
    /\ answer.clause = answer.best_clause
    /\ answer.has_confidence
    /\ answer.confidence = RoundedConfidence(answer.best_distance)

\* the knowledge-base candidate has a confidence of at least `threshold`
\* hundredths, or a lexical hit
KbClears(threshold) ==
    \/ ~ ConfidenceBelow(answer.kb.distance, threshold)
    \/ answer.kb.lexical_hits > 0

----------------------------------------------------------------------------
(* Retrieval: what reaches the caller *)

\* the last call was retrieve_clause
RetrieveCalled == answer.tier # "none"

\* the outcome is (clause, confidence), (None, confidence) or (None, None)
OutcomeShape == answer.has_clause => answer.has_confidence

\* retrieve_clause returned (None, None)
ReturnedNothing == ~ answer.raised /\ ~ answer.has_clause /\ ~ answer.has_confidence

\* what retrieve_clause returns when nothing it calls raises: (None, None) on
\* the empty store, and never a clause without a confidence
ReturnsWellFormed ==
    (RetrieveCalled /\ ~ answer.raised) =>
        /\ OutcomeShape
        /\ (~ RankerEncodes(CurMem) /\ chunks_store = <<>>) => ReturnedNothing

\* C14: retrieve_clause never raises an exception to its caller: on an absent
\* or empty index with an empty chunk store it returns (None, None) for every
\* query, and otherwise (clause, confidence), (None, confidence) or
\* (None, None), never a clause without a confidence.
C14_RetrieveNeverRaises ==
    RetrieveCalled => ~ answer.raised /\ ReturnsWellFormed

----------------------------------------------------------------------------
(* The store: rebuild and add *)

\* after the step all three stores are those of the chunk list of the call
AllThreeNew ==
    /\ chunks_store' = last'.chunks
    /\ chunk_sources' = Repeat(last'.source, Len(last'.chunks))
    /\ index' = IF last'.chunks = <<>> THEN NoIndex
                ELSE IndexFlatL2(Encode(last'.chunks))

\* C15: when control is back with the caller of build_index, whether it
\* returned or the embedding step raised, either the index, the chunk texts and
\* the source tags all reflect the new chunk list or all three are unchanged.
C15_RebuildIsAtomic ==
    [][last'.op = "build_index" => AllThreeNew \/ UNCHANGED storeVars]_vars

IsPrefix(s, t) == Len(s) <= Len(t) /\ SubSeq(t, 1, Len(s)) = s

\* the step appended to the chunk texts and source tags: what was stored stays
\* in place, the chunks of the call that were not stored follow from the
\* previous count on with the source tag of the call, and the count returned
\* is the increase
Appended ==
    /\ IsPrefix(chunks_store, chunks_store')
    /\ IsPrefix(chunk_sources, chunk_sources')
    /\ SubSeq(chunks_store', Len(chunks_store) + 1, Len(chunks_store'))
          = SelectSeq(last'.chunks, LAMBDA chunk : ~ InStore(chunk, chunks_store))
    /\ SubSeq(chunk_sources', Len(chunk_sources) + 1, Len(chunk_sources'))
          = Repeat(last'.source, Len(chunks_store') - Len(chunks_store))
    /\ last'.count = Len(chunks_store') - Len(chunks_store)

\* C16: add_chunks on a store that already holds chunks never changes or
\* reorders what is stored: the previous chunk texts and source tags are
\* prefixes of the new ones, the new chunks follow with the source tag of the
\* call, and the integer returned is the increase in the number of chunks.
C16_AddAppends ==
    [][(last'.op = "add_chunks" /\ ~ last'.raised /\ chunks_store # <<>>) => Appended]_vars

\* C16 for the stores that hold chunks and an index with vectors
AddAppendsToIndexedStore ==
    [][(last'.op = "add_chunks" /\ ~ last'.raised /\ RankerEncodes(CurMem)) => Appended]_vars

----------------------------------------------------------------------------
(* Bootstrap from the seed *)

\* the seed file is absent, does not parse, or has no entry with a context
SeedUnusable ==
    \/ ~ Exists(legal_qa_file)
    \/ ~ Parses(legal_qa_file, "json_array")
    \/ SeedContexts(legal_qa_file.items) = <<>>

\* the store rebuilt from the seed entries that have a context, tagged as
\* knowledge base
SeedStore ==
    LET contexts == CleanChunks(SeedContexts(legal_qa_file.items))
    IN  Mem(IndexFlatL2(Encode(contexts)), contexts,
            Repeat(SOURCE_LEGAL_QA, Len(contexts)))

\* the three cases of the bootstrap, r being what a call in the current state
\* does and loaded what its load_index() does; in the third case the
\* embedding step returns
BootstrapCases(r, loaded, encodeOk) ==
    IF loaded.ok
    THEN r.ok /\ ~ r.raised /\ r.mem = loaded.mem /\ r.disk = CurDisk
    ELSE IF SeedUnusable
    THEN ~ r.ok /\ ~ r.raised /\ r.mem = CurMem
    ELSE encodeOk =>
            /\ r.ok /\ ~ r.raised
            /\ r.mem = SeedStore
            /\ r.disk = save_index(SeedStore, CurDisk).disk
            /\ load_index(FreshMem, r.disk).mem = SeedStore

\* C17: initialize_vector_db_from_legal_qa returns true without touching the
\* snapshot when load_index succeeds; when it does not and the seed is absent,
\* unreadable, unparsable or without a non-empty context, it returns false
\* without raising and leaves the store unchanged; otherwise it rebuilds the
\* store from the seed entries with a context, tagged as knowledge base,
\* persists it and returns true.
C17_Bootstrap ==
    \A encodeOk \in BOOLEAN :
        BootstrapCases(initialize_vector_db_from_legal_qa(CurMem, CurDisk, legal_qa_file,
                                                          encodeOk),
                       load_index(CurMem, CurDisk), encodeOk)

\* C17 in the states where load_index() returns
BootstrapWhenLoadReturns ==
    ~ load_index(CurMem, CurDisk).raised => C17_Bootstrap

----------------------------------------------------------------------------
(* Lexical expansion *)

WordLiability == <<"l","i","a","b","i","l","i","t","y">>
WordResponsibility == <<"r","e","s","p","o","n","s","i","b","i","l","i","t","y">>
\* LEGAL_SYNONYMS["liability"]
LiabilitySynonyms ==
    {<<"l","i","a","b","l","e">>,
     <<"r","e","s","p","o","n","s","i","b","l","e">>,
     <<"a","c","c","o","u","n","t","a","b","i","l","i","t","y">>,
     <<"o","b","l","i","g","a","t","i","o","n">>}

\* the terms and expansions the extractor derived from the query of the last
\* call of retrieve_clause
AnsweredTerms == OfQuery(answer.query).terms

\* C18: the synonym table is consulted by key: a query whose surviving terms
\* include 'liability' gets the four synonyms of 'liability' in its expansion
\* set; a query whose terms include 'responsibility' and not 'liability' gets
\* none of them.
C18_SynonymsByKey ==
    RetrieveCalled =>
        /\ InSeq(WordLiability, AnsweredTerms.query_terms) =>
              \A s \in LiabilitySynonyms : InSeq(s, AnsweredTerms.expanded_phrases)
        /\ (/\ InSeq(WordResponsibility, AnsweredTerms.query_terms)
            /\ ~ InSeq(WordLiability, AnsweredTerms.query_terms)) =>
              \A s \in LiabilitySynonyms : ~ InSeq(s, AnsweredTerms.expanded_phrases)

\* retrieve_clause has answered a query with the term 'responsibility' from
\* the semantic tier, the expansion set of the query being empty
C18_Witness ==
    /\ answer.query = QueryResponsibility
    /\ answer.tier = "semantic"
    /\ InSeq(WordResponsibility, AnsweredTerms.query_terms)
    /\ AnsweredTerms.expanded_phrases = <<>>

\* C18 as written: the term 'responsibility' brings the synonyms of
\* 'liability' into the expansion set.
C18_ResponsibilityExpands ==
    (/\ RetrieveCalled
     /\ InSeq(WordResponsibility, AnsweredTerms.query_terms)
     /\ ~ InSeq(WordLiability, AnsweredTerms.query_terms)) =>
        \A s \in LiabilitySynonyms : InSeq(s, AnsweredTerms.expanded_phrases)

----------------------------------------------------------------------------
(* The legal-reference matcher *)

\* the reference extracted from the query of the last call of retrieve_clause
AnsweredRef == OfQuery(answer.query).ref

\* the chunk contains the section reference, case-insensitively, and, when an
\* act name was extracted, the act name, the act name without its spaces or
\* the first five characters of the act name
QualifiesFor(chunk, ref) ==
    LET act == Lower(ref.act_name)
    IN  /\ Contains(Lower(ref.section_ref), Lower(chunk))
        /\ ref.act_name # NoText =>
              \/ Contains(act, Lower(chunk))
              \/ Contains(Remove(act, <<" ">>), Lower(chunk))
              \/ Contains(SubSeq(act, 1, IF Len(act) < 5 THEN Len(act) ELSE 5), Lower(chunk))

\* the positions of the stored chunks that qualify for the answered query
QualifyingPositions ==
    {idx \in 1..Len(chunks_store) : QualifiesFor(chunks_store[idx], AnsweredRef)}

\* C19: the legal-reference matcher finds nothing when no section reference
\* is extracted from the query or no stored chunk qualifies; otherwise it
\* returns, with confidence 0.95, the qualifying chunk at the lowest position.
C19_FirstQualifyingChunk ==
    RetrieveCalled =>
        IF AnsweredRef.section_ref = NoText \/ QualifyingPositions = {}
        THEN answer.tier # "legal_reference"
        ELSE /\ answer.tier = "legal_reference"
             /\ answer.has_clause /\ answer.has_confidence
             /\ answer.clause =
                   chunks_store[CHOOSE idx \in QualifyingPositions :
                                   \A other \in QualifyingPositions : idx <= other]
             /\ answer.confidence = 95

\* a query with a section and an act name was answered with the second stored
\* chunk, the first holding the section reference without the act name
C19_Witness ==
    /\ answer.query = QueryReferenceWithAct
    /\ chunks_store = <<TextSectionQA, TextSampleAct>>
    /\ QualifyingPositions = {2}
    /\ answer.tier = "legal_reference"
    /\ answer.clause = TextSampleAct

----------------------------------------------------------------------------
(* The hybrid ranker *)

\* a comes before b in the nearest-neighbour order of the search
NearerFirst(a, b) ==
    \/ a.distance < b.distance
    \/ a.distance = b.distance /\ a.idx < b.idx

\* the list is in non-increasing order of combined_score, rows of equal score
\* in the nearest-neighbour order
RankedInOrder(ranked) ==
    \A k \in 1..Len(ranked), l \in 1..Len(ranked) :
        k < l =>
            /\ ~ ScoreGreater(ranked[l], ranked[k])
            /\ ~ ScoreGreater(ranked[k], ranked[l]) => NearerFirst(ranked[k], ranked[l])

\* at most min(MAX_RETRIEVAL_CANDIDATES, index.ntotal) rows, each for another
\* stored position
RankedWithinStore(ranked) ==
    /\ Len(ranked) <= MAX_RETRIEVAL_CANDIDATES
    /\ Len(ranked) <= ntotal(index)
    /\ \A k \in 1..Len(ranked) :
          /\ ranked[k].idx \in 1..Len(chunks_store)
          /\ ranked[k].clause = chunks_store[ranked[k].idx]
          /\ \A l \in 1..Len(ranked) : ranked[l].idx = ranked[k].idx => l = k

\* what the claim says of one list returned by _rank_candidates
RankedAsClaimed(ranked) ==
    /\ RankedInOrder(ranked)
    /\ RankedWithinStore(ranked)
    /\ (~ index.exists \/ ntotal(index) = 0) => ranked = <<>>

----------------------------------------------------------------------------
(* The reranker: which candidate comes back *)

\* the model is loaded
ModelLoaded == _tokenizer /\ _model

\* the candidate the claim names for a list and its relevance scores: the
\* earliest of the candidates with text that have the greatest score, if that
\* score reaches the threshold
BestByClaim(candidates, min_score, outcomes) ==
    LET with_text == {k \in 1..Len(candidates) : candidates[k].clause # NoText}
        threshold == IF min_score = -1 THEN RELEVANCE_THRESHOLD ELSE min_score
        top == MaxOf({outcomes[k] : k \in with_text})
        winner == CHOOSE k \in with_text :
                     /\ outcomes[k] = top
                     /\ \A j \in with_text : outcomes[j] = top => k <= j
    IN  IF with_text = {} THEN NoBest
        ELSE IF top >= threshold
        THEN [found |-> TRUE, clause |-> candidates[winner].clause, reranker_score |-> top]
        ELSE NoBest

\* C21: with the model loaded, rerank_candidates returns the earliest of the
\* candidates with text that have the greatest relevance score if that score
\* is at least the threshold (min_score when given, else RELEVANCE_THRESHOLD),
\* and None otherwise; an empty list, or one whose candidates all have empty
\* text, yields None.
C21_RerankReturnsBest ==
    ModelLoaded =>
        \A candidates \in CandidateLists, min_score \in MinScores :
            \A outcomes \in [1..Len(candidates) -> Scores] :
                LET r == rerank_candidates(CurReranker, model_dir, candidates, min_score,
                                           outcomes)
                IN  ~ r.raised /\ r.best = BestByClaim(candidates, min_score, outcomes)

\* a call with the default threshold has returned a candidate whose score
\* equals the threshold
C21_Witness ==
    /\ ModelLoaded
    /\ last.op = "rerank_candidates"
    /\ reranked.min_score = -1
    /\ reranked.best.found
    /\ reranked.best.reranker_score = RELEVANCE_THRESHOLD

----------------------------------------------------------------------------
(* The ranker: what lexical and source evidence can add *)

\* min(0.15, 0.04 * keyword_hits + 0.06 * phrase_hits) in hundredths
LexicalContribution(row) ==
    LET weighted == KEYWORD_WEIGHT * row.keyword_hits + PHRASE_WEIGHT * row.phrase_hits
    IN  IF weighted < KEYWORD_BOOST_CAP THEN weighted ELSE KEYWORD_BOOST_CAP

\* 0.03 for a knowledge-base chunk and 0 otherwise, in hundredths
SourceContribution(row) ==
    IF row.source = SOURCE_LEGAL_QA THEN SOURCE_BONUS ELSE 0

\* combined_score = 0.82 * confidence + lexical contribution + source bonus,
\* the last two together at most 0.18
ScoredAsClaimed(row) ==
    /\ row.score_den = DistanceUnit + row.distance
    /\ row.score_num = SEMANTIC_WEIGHT * DistanceUnit
                        + (LexicalContribution(row) + SourceContribution(row)) * row.score_den
    /\ LexicalContribution(row) + SourceContribution(row)
           <= KEYWORD_BOOST_CAP + SOURCE_BONUS

\* 0.82 * confidence(a) > 0.82 * confidence(b) + 0.18 for the distances da of a
\* and db of b, where confidence = DistanceUnit / (DistanceUnit + distance)
SemanticMargin(da, db) ==
    SEMANTIC_WEIGHT * DistanceUnit * (DistanceUnit + db)
        > SEMANTIC_WEIGHT * DistanceUnit * (DistanceUnit + da)
          + (KEYWORD_BOOST_CAP + SOURCE_BONUS) * (DistanceUnit + da) * (DistanceUnit + db)

RankedByMargin(ranked) ==
    /\ \A k \in 1..Len(ranked) : ScoredAsClaimed(ranked[k])
    /\ \A i, j \in 1..Len(ranked) :
           SemanticMargin(ranked[i].distance, ranked[j].distance) => i < j

\* C22: the lexical contribution to combined_score is min(0.15, 0.04 *
\* keyword_hits + 0.06 * phrase_hits) and the source bonus is 0.03 for
\* knowledge-base chunks and 0 otherwise, so the two add at most 0.18: of two
\* candidates a and b of one query with 0.82 * confidence(a) > 0.82 *
\* confidence(b) + 0.18, a is ranked before b whatever their hits and sources.
C22_SemanticMarginDecides ==
    \A query \in Queries, dist \in [CorpusTexts -> Distances] :
        RankedByMargin(_rank_candidates(query, CurMem, dist))

\* an uploaded chunk without lexical hits has been ranked before a
\* knowledge-base chunk with lexical hits that it leads by the margin
C22_Witness ==
    /\ RetrieveCalled
    /\ answer.ranked >= 2
    /\ answer.best_source = SOURCE_UPLOAD
    /\ answer.best_lexical_hits = 0
    /\ answer.kb.distance # -1
    /\ answer.kb.lexical_hits > 0
    /\ SemanticMargin(answer.best_distance, answer.kb.distance)

----------------------------------------------------------------------------
(* The question matcher: which chunk comes back *)

MatchCalled == last.op = "_find_exact_question_match"

\* the positions whose normalized wrapped question equals the normalized query
ExactAt(query, store) ==
    {k \in Wrapped(query, store) : OfChunk(query, store[k]).exact}

\* the positions of the wrapped chunks with the highest ratio
HighestAt(query, store) ==
    {k \in Wrapped(query, store) :
        \A j \in Wrapped(query, store) :
           ~ RatioGreater(OfChunk(query, store[j]).score, OfChunk(query, store[k]).score)}

MinOf(S) == CHOOSE x \in S : \A y \in S : x <= y

Above85(r) == 100 * r.num > 85 * r.den
Below85(r) == 100 * r.num < 85 * r.den

\* the first exact match comes back whatever precedes it, and no chunk
\* outside the wrapper ever comes back
ExactFirstAndWrappedOnly(query, store) ==
    /\ ExactAt(query, store) # {} =>
           answer.has_clause /\ answer.clause = store[MinOf(ExactAt(query, store))]
    /\ answer.has_clause =>
           \E k \in Wrapped(query, store) : answer.clause = store[k]

\* C23: _find_exact_question_match returns the first chunk in storage order
\* whose normalized wrapped question equals the normalized query, even when an
\* earlier chunk has a ratio of 0.85 or more; a chunk outside the
\* Question/Clause wrapper is never returned; without an exact match a
\* returned chunk is the one with the highest ratio, the earliest on ties: it
\* is returned when that ratio is above 0.85, and None is returned when every
\* ratio is below 0.85.
C23_FirstExactElseHighestAboveThreshold ==
    MatchCalled =>
        /\ ExactFirstAndWrappedOnly(answer.query, chunks_store)
        /\ ExactAt(answer.query, chunks_store) = {} =>
              /\ answer.has_clause =>
                     answer.clause = chunks_store[MinOf(HighestAt(answer.query, chunks_store))]
              /\ (\E k \in Wrapped(answer.query, chunks_store) :
                      Above85(OfChunk(answer.query, chunks_store[k]).score))
                     => answer.has_clause
              /\ (\A k \in Wrapped(answer.query, chunks_store) :
                      Below85(OfChunk(answer.query, chunks_store[k]).score))
                     => ~ answer.has_clause

\* an exact match at the second position has been returned although the chunk
\* at the first position has a ratio above 0.85
C23_Witness ==
    /\ MatchCalled
    /\ Len(chunks_store) >= 2
    /\ ExactAt(answer.query, chunks_store) = {2}
    /\ Above85(OfChunk(answer.query, chunks_store[1]).score)
    /\ answer.has_clause
    /\ answer.clause = chunks_store[2]

\* C23 as worded: without an exact match the result is the chunk with the
\* highest ratio, whatever that ratio is.
C23_FirstExactElseHighest ==
    MatchCalled =>
        /\ ExactFirstAndWrappedOnly(answer.query, chunks_store)
        /\ (/\ ExactAt(answer.query, chunks_store) = {}
            /\ Wrapped(answer.query, chunks_store) # {}) =>
              /\ answer.has_clause
              /\ answer.clause = chunks_store[MinOf(HighestAt(answer.query, chunks_store))]

----------------------------------------------------------------------------
(* Loading a snapshot without, or with another snapshot's, sources file *)

\* the index, chunks and metadata files are present and valid: they parse,
\* the schema version is the current one, and the index holds one vector for
\* each of at least one chunk
SnapshotValidButSources ==
    /\ Parses(faiss_file, "faiss_flat_l2")
    /\ Parses(chunks_file, "json_array")
    /\ Parses(metadata_file, "json_object")
    /\ SchemaAccepted(metadata_file)
    /\ chunks_file.items # <<>>
    /\ ntotal(FaissRead(faiss_file)) = Len(chunks_file.items)

\* C25: when the index, chunks and metadata files are present and valid and
\* the sources file is absent, load_index returns True and tags every loaded
\* chunk 'unknown', so the three lengths are equal after the load; when the
\* sources file is present with a length other than that of the chunk list,
\* load_index returns False and leaves the store unchanged.
C25_LoadWithoutOrWithStaleSources ==
    [][(last'.op = "load_index" /\ SnapshotValidButSources) =>
          /\ ~ Exists(sources_file) =>
                /\ last'.ok
                /\ chunks_store' = chunks_file.items
                /\ chunk_sources' = Repeat(SOURCE_UNKNOWN, Len(chunks_store'))
                /\ ntotal(index') = Len(chunks_store')
          /\ (/\ Parses(sources_file, "json_array")
              /\ Len(sources_file.items) # Len(chunks_file.items)) =>
                /\ ~ last'.ok
                /\ ~ last'.raised
                /\ UNCHANGED storeVars]_vars

\* a snapshot of chunks without a sources file has been loaded
C25_Witness ==
    /\ last.op = "load_index"
    /\ last.ok
    /\ SnapshotValidButSources
    /\ ~ Exists(sources_file)
    /\ chunks_store # <<>>
    /\ chunk_sources = Repeat(SOURCE_UNKNOWN, Len(chunks_store))

----------------------------------------------------------------------------
(* Deduplication by add_chunks *)

\* C26: after any sequence of add_chunks calls from the empty store the stored
\* chunk texts are pairwise distinct, also when the list of one call holds a
\* text more than once and when the first call is the one that builds the
\* index.
C26_StoredTextsDistinct ==
    \A i, j \in 1..Len(chunks_store) : chunks_store[i] = chunks_store[j] => i = j

----------------------------------------------------------------------------
(* The confidence reported with a refusal *)

\* the threshold that retrieve_clause applied to the best candidate
AppliedThreshold == ConfidenceThreshold(answer.best_lexical_hits)

\* `reported` (hundredths) is a hundredth nearest to 1 / (1 + d)
NearestHundredth(reported, distance) ==
    /\ 2 * (100 * DistanceUnit - reported * (DistanceUnit + distance))
          <= DistanceUnit + distance
    /\ 2 * (reported * (DistanceUnit + distance) - 100 * DistanceUnit)
          <= DistanceUnit + distance

\* distances around the two thresholds: confidence from 0.303 down to 0.244
GateDistances == 2300..3100

\* C27 (as amended): when retrieve_clause returns (None, c) with c not None,
\* the confidence of the best candidate is strictly below the threshold that
\* was applied (0.30 with zero lexical hits, 0.25 otherwise) and c is that
\* confidence rounded to two decimals, which is never above the threshold but
\* can be equal to it.
C27_ReportedAtMostThreshold ==
    /\ (RetrieveCalled /\ ~ answer.has_clause /\ answer.has_confidence) =>
          /\ answer.tier = "below_threshold"
          /\ ConfidenceBelow(answer.best_distance, AppliedThreshold)
          /\ NearestHundredth(answer.confidence, answer.best_distance)
          /\ answer.confidence <= AppliedThreshold
    /\ \A distance \in GateDistances :
          \A threshold \in {MIN_CONFIDENCE_SCORE, LEGAL_REFERENCE_CONFIDENCE_THRESHOLD} :
             ConfidenceBelow(distance, threshold) =>
                /\ NearestHundredth(RoundedConfidence(distance), distance)
                /\ RoundedConfidence(distance) <= threshold

\* a best candidate without lexical hits and with confidence 0.296 was refused
\* and reported with confidence 0.30
C27_Witness ==
    /\ RetrieveCalled
    /\ ~ answer.has_clause
    /\ answer.has_confidence
    /\ answer.best_lexical_hits = 0
    /\ ConfidenceBelow(answer.best_distance, MIN_CONFIDENCE_SCORE)
    /\ answer.confidence = MIN_CONFIDENCE_SCORE

\* C27 as worded: the reported confidence is strictly below the threshold.
C27_ReportedBelowThreshold ==
    (RetrieveCalled /\ ~ answer.has_clause /\ answer.has_confidence) =>
        answer.confidence < AppliedThreshold

----------------------------------------------------------------------------
(* The merged context: when, and under which label *)

\* the semantic tier returned a clause
SemanticClause ==
    RetrieveCalled /\ answer.tier \in SemanticTiers /\ answer.has_clause

\* the two-heading context with `label` in its second heading
TwoHeadings(label) ==
    HeadingKnowledgeBase \o answer.kb.clause \o HeadingAdditional \o label
    \o HeadingClose \o answer.best_clause

\* C28: retrieve_clause returns a merged two-heading context only when the
\* best-ranked candidate is not from the knowledge base: a best candidate from
\* the knowledge base comes back alone with its own rounded confidence, and
\* the label 'Knowledge Base' of the second heading is used only for a best
\* candidate whose source is neither 'upload' nor the knowledge base.
C28_MergeOnlyForOtherSources ==
    SemanticClause =>
        /\ answer.best_source = SOURCE_LEGAL_QA => ReturnedBestAlone
        /\ \/ ReturnedBestAlone
           \/ /\ answer.best_source = SOURCE_UPLOAD
              /\ answer.kb.distance # -1
              /\ answer.clause = TwoHeadings(LabelUpload)
           \/ /\ answer.best_source \notin {SOURCE_UPLOAD, SOURCE_LEGAL_QA}
              /\ answer.kb.distance # -1
              /\ answer.clause = TwoHeadings(LabelKnowledgeBase)

\* a best candidate tagged 'unknown' has been merged with a knowledge-base
\* candidate under the label 'Knowledge Base'
C28_Witness ==
    /\ SemanticClause
    /\ answer.best_source = SOURCE_UNKNOWN
    /\ answer.kb.distance # -1
    /\ answer.clause = TwoHeadings(LabelKnowledgeBase)

----------------------------------------------------------------------------
(* Two request threads and the first load of the model *)

\* C29: when rerank_candidates calls run at the same time in a process whose
\* model artifact is present and loadable, none of them returns None for want
\* of the model: a call that arrives during another call's first load waits
\* for the load or repeats it.
C29_NoCallFindsModelUnavailable ==
    \A t \in Callers :
        (rerank_calls[t].pc = "returned" /\ rerank_calls[t].fresh) =>
            rerank_calls[t].outcome # "unavailable"

----------------------------------------------------------------------------
(* A mutating thread and a ranking thread, statement by statement *)

\* a rank call has looked at the store while no mutating call was between two
\* of its statements
SerializedReader == ranking.pc # "idle" /\ ~ ranking.seen.in_flight

\* C24: without serialization a reader can find the vector count different
\* from the number of chunk texts; when every mutating call is serialized
\* against readers, no reader ever finds the two counts different.
C24_SerializedReaderSeesEqualCounts ==
    SerializedReader => ranking.seen.vectors = ranking.seen.texts

\* a step of the rank call, with no statement of build_index during the call
\* and no mutating call that has raised
AddOnlyRankStep ==
    /\ ranking' # ranking
    /\ mutation' = mutation
    /\ ~ ranking'.rebuilt
    /\ faults = 0

\* the row appended for the hit carries the text stored at the position of the
\* matched vector
CarriesStoredText(hit, row) ==
    /\ hit.idx \in 1..Len(chunks_store)
    /\ hit.idx \in 1..ntotal(index)
    /\ row.idx = hit.idx
    /\ row.clause = chunks_store[hit.idx]
    /\ row.clause = index.vectors[hit.idx].emb

CarriesStoredSource(hit, row) ==
    /\ hit.idx \in 1..Len(chunk_sources)
    /\ row.source = chunk_sources[hit.idx]

\* the source list has not been extended to the position yet
CarriesUnknownSource(hit, row) ==
    /\ hit.idx > Len(chunk_sources)
    /\ row.source = SOURCE_UNKNOWN

LastRow(ranked) == ranked[Len(ranked)]

\* the positions a step of add_chunks finds in the store keep their vector,
\* text and source
PositionsKept ==
    /\ index.exists => /\ index'.exists
                       /\ \A i \in 1..ntotal(index) :
                             i <= ntotal(index') /\ index'.vectors[i] = index.vectors[i]
    /\ \A i \in 1..Len(chunks_store) :
          i <= Len(chunks_store') /\ chunks_store'[i] = chunks_store[i]
    /\ \A i \in 1..Len(chunk_sources) :
          i <= Len(chunk_sources') /\ chunk_sources'[i] = chunk_sources[i]

AddStep == mutation' # mutation /\ ~ InBuild /\ mutation'.pc \notin {"build:start"}

\* what holds of every step whatever the source of a row is
AddOnlyRankIsSafe ==
    /\ AddStep => PositionsKept
    /\ AddOnlyRankStep =>
          /\ ranking'.fault = "none"
          /\ (ranking.pc = "searched" /\ ranking'.pc = "searched") =>
                ranking.hits[ranking.k].idx > Len(chunks_store)
          /\ ranking.pc = "checked" =>
                /\ Len(ranking'.ranked) = Len(ranking.ranked) + 1
                /\ CarriesStoredText(ranking.hits[ranking.k], LastRow(ranking'.ranked))

\* C30 as amended: when only add_chunks calls on a non-empty store run at the
\* same time as _rank_candidates, the rank call raises nothing, skips a
\* position that the text list does not have yet, appends for every other
\* position the text stored there, with the source stored there or 'unknown'
\* when the source list has not been extended to the position yet; add_chunks
\* never reassigns a position.
C30_AddOnlyRankCarriesStoredTextAndSourceOrUnknown ==
    [][/\ AddOnlyRankIsSafe
       /\ (AddOnlyRankStep /\ ranking.pc = "checked") =>
             \/ CarriesStoredSource(ranking.hits[ranking.k], LastRow(ranking'.ranked))
             \/ CarriesUnknownSource(ranking.hits[ranking.k], LastRow(ranking'.ranked))]_vars

\* a rank call that ran only across statements of add_chunks has returned a
\* row tagged 'unknown' for a position that add_chunks tagged 'upload'
C30_Witness ==
    /\ ranking.pc = "returned"
    /\ ranking.overlapped /\ ~ ranking.rebuilt
    /\ faults = 0
    /\ Idle
    /\ \E i \in 1..Len(ranking.ranked) :
          /\ ranking.ranked[i].source = SOURCE_UNKNOWN
          /\ ranking.ranked[i].idx <= Len(chunk_sources)
          /\ chunk_sources[ranking.ranked[i].idx] = SOURCE_UPLOAD
          /\ chunks_store[ranking.ranked[i].idx] = ranking.ranked[i].clause

\* C30 as stated: when only add_chunks calls on a non-empty store run at the
\* same time as _rank_candidates, every row carries the text and the source
\* stored at the position of the matched vector.
C30_AddOnlyRankCarriesStoredTextAndSource ==
    [][/\ AddOnlyRankIsSafe
       /\ (AddOnlyRankStep /\ ranking.pc = "checked") =>
             CarriesStoredSource(ranking.hits[ranking.k], LastRow(ranking'.ranked))]_vars

====
